---- MODULE Spec2Model ----
(***************************************************************************)
(* A model of atkmod (src/atkmod.go, latest revision of the package):      *)
(* the podman command-line builder, the process runner with its run        *)
(* context, and the DeployableModule lifecycle state machine.              *)
(*                                                                         *)
(* Go strings are modelled as sequences of one-character strings, so that  *)
(* fmt.Sprintf, strings.TrimSpace and strings.Split are computed and not   *)
(* assumed.                                                                *)
(***************************************************************************)
EXTENDS Integers, Sequences, FiniteSets, TLC

VARIABLES
    module,     \* *ModuleInfo handed to NewDeployableModule (read-only)
    cmds,       \* DeployableModule.cmds : State -> StateCmd (NilCmd if absent)
    current,    \* DeployableModule.current
    previous,   \* DeployableModule.previous
    modCtx,     \* DeployableModule.runCtx, the module's copy of the run context
    parts,      \* the CliParts of the runner's embedded PodmanCliCommandBuilder
    ctx,        \* the caller's *RunContext (Errors, LastErrCode)
    step,       \* the (StateCmd, bool) pair last returned by the NextFunc
    pc,         \* where the caller's driving loop stands
    last,       \* what the last operation did and returned
    ran,        \* history: the runner invocations so far, in order
    nsteps,     \* history: handlers invoked that were yielded with more = TRUE
    nops        \* history: operations performed on the module or the runner

vars == <<module, cmds, current, previous, modCtx, parts, ctx, step, pc, last, ran, nsteps, nops>>

-----------------------------------------------------------------------------
(* Bounds of the model *)

\* calls the caller makes on the module's API in one behaviour of Spec
MaxOps == 3

\* hook invocations the caller interleaves with the driving loop of SpecItr
MaxHooks == 1

\* calls made on a stand-alone runner in one behaviour of SpecCli
MaxCliOps == 3

\* calls made with one shared RunContext in SpecCtx
MaxCtxOps == 2

\* calls made on one builder in SpecBld
MaxBldOps == 4

\* calls made on a loader and the module it loaded in SpecLoad
MaxLoadOps == 3

-----------------------------------------------------------------------------
(* Go strings *)

SP == " "

IsSpace(c) == c \in {" ", "\t", "\n", "\r"}

RECURSIVE TrimLeft(_)
TrimLeft(s) ==
    IF s # <<>> /\ IsSpace(Head(s)) THEN TrimLeft(Tail(s)) ELSE s

RECURSIVE TrimRight(_)
TrimRight(s) ==
    IF s # <<>> /\ IsSpace(s[Len(s)]) THEN TrimRight(SubSeq(s, 1, Len(s) - 1)) ELSE s

\* strings.TrimSpace
TrimSpace(s) == TrimRight(TrimLeft(s))

\* strings.Split(s, " "): the fields between the separators, one more than there
\* are separators, empty fields kept
Split(s) ==
    LET seps == SelectSeq([i \in 1..Len(s) |-> i], LAMBDA i : s[i] = SP)
        n    == Len(seps)
    IN  [k \in 1..(n + 1) |->
            SubSeq(s, IF k = 1 THEN 1 ELSE seps[k - 1] + 1,
                      IF k = n + 1 THEN Len(s) ELSE seps[k] - 1)]

\* the concatenation of a sequence of strings
RECURSIVE Flatten(_)
Flatten(ss) ==
    IF ss = <<>> THEN <<>> ELSE Head(ss) \o Flatten(Tail(ss))

\* one decimal digit
Digit(d) == <<"0", "1", "2", "3", "4", "5", "6", "7", "8", "9">>[d + 1]

\* fmt.Sprintf("%d", n) for n >= 0
RECURSIVE Itoa(_)
Itoa(n) ==
    IF n < 10 THEN <<Digit(n)>> ELSE Append(Itoa(n \div 10), Digit(n % 10))

\* the byte order Go compares strings with, on the characters the model uses
CharOrder == <<" ", "-", "/", "0", "1", "2", "3", "4", "5", "6", "7", "8", "9", ":", "=",
               "A", "B", "V", "Z", "a", "b", "c", "d", "e", "g", "i", "k", "l", "m", "n",
               "o", "p", "r", "s", "u", "w", "x", "y">>

Ord(c) == CHOOSE i \in 1..Len(CharOrder) : CharOrder[i] = c

\* a < b for Go strings
RECURSIVE StrLess(_, _)
StrLess(a, b) ==
    IF b = <<>> THEN FALSE
    ELSE IF a = <<>> THEN TRUE
    ELSE IF Head(a) = Head(b) THEN StrLess(Tail(a), Tail(b))
    ELSE Ord(Head(a)) < Ord(Head(b))

-----------------------------------------------------------------------------
(* CliParts and PodmanCliCommandBuilder *)

DefaultPodmanPath ==
    <<"/", "u", "s", "r", "/", "l", "o", "c", "a", "l", "/", "b", "i", "n", "/",
      "p", "o", "d", "m", "a", "n">>

DefaultCmd == <<"r", "u", "n">>

DefaultWorkdir == <<"/", "w", "o", "r", "k", "s", "p", "a", "c", "e">>

\* the zero value of CliParts; Ports is a set of <<host, container>> pairs with
\* unique hosts (a Go map)
ZeroParts ==
    [Path |-> <<>>, Cmd |-> <<>>, Image |-> <<>>, Flags |-> <<>>, Workdir |-> <<>>,
     VolumeMaps |-> <<>>, DefaultVolumeOpt |-> <<>>, Ports |-> {}, UidMaps |-> <<>>,
     Envvars |-> <<>>]

\* EnvVarInfo.String
EnvVarString(e) == e.Name \o <<"=">> \o e.Value

WithPath(p, path) == [p EXCEPT !.Path = path]

WithImage(p, imageName) == [p EXCEPT !.Image = imageName]

\* WithVolumeOpt falling back to the builder's default mount option
WithVolumeOptDefaults(p, localdir, containerdir, option) ==
    LET volMap == localdir \o <<":">> \o containerdir \o <<":">>
                  \o (IF Len(option) > 0 THEN option ELSE p.DefaultVolumeOpt)
    IN  [p EXCEPT !.VolumeMaps = Append(@, volMap)]

WithVolumeOpt(p, localdir, containerdir, option) ==
    LET volMap == IF Len(option) > 0
                  THEN localdir \o <<":">> \o containerdir \o <<":">> \o option
                  ELSE localdir \o <<":">> \o containerdir
    IN  [p EXCEPT !.VolumeMaps = Append(@, volMap)]

WithVolume(p, localdir, containerdir) == WithVolumeOpt(p, localdir, containerdir, <<>>)

WithWorkspace(p, localdir) == WithVolume(p, localdir, p.Workdir)

\* WithUserMap rendering the host uid first
WithUserMapHostFirst(p, localUser, containerUser, number) ==
    LET mapstr == Itoa(localUser) \o <<":">> \o Itoa(containerUser) \o <<":">> \o Itoa(number)
    IN  [p EXCEPT !.UidMaps = Append(@, mapstr)]

WithUserMap(p, localUser, containerUser, number) ==
    LET mapstr == Itoa(containerUser) \o <<":">> \o Itoa(localUser) \o <<":">> \o Itoa(number)
    IN  [p EXCEPT !.UidMaps = Append(@, mapstr)]

\* WithPort keeping the mapping a host port already has
WithPortKeepsFirst(p, localport, containerport) ==
    IF \E pr \in p.Ports : pr[1] = localport
    THEN p
    ELSE [p EXCEPT !.Ports = @ \cup {<<localport, containerport>>}]

WithPort(p, localport, containerport) ==
    [p EXCEPT !.Ports = {pr \in @ : pr[1] # localport} \cup {<<localport, containerport>>}]

\* WithEnvvar replacing the value a name already has
WithEnvvarDedups(p, name, value) ==
    [p EXCEPT !.Envvars =
        IF \E i \in 1..Len(@) : @[i].Name = name
        THEN [i \in 1..Len(@) |-> IF @[i].Name = name THEN [Name |-> name, Value |-> value]
                                  ELSE @[i]]
        ELSE Append(@, [Name |-> name, Value |-> value])]

WithEnvvar(p, name, value) ==
    [p EXCEPT !.Envvars = Append(@, [Name |-> name, Value |-> value])]

\* the greatest key of a non-empty port map
GreatestPort(ports) == CHOOSE pr \in ports : \A q \in ports : q = pr \/ StrLess(q[1], pr[1])

\* the least key of a non-empty port map
LeastPort(ports) == CHOOSE pr \in ports : \A q \in ports : q = pr \/ StrLess(pr[1], q[1])

\* the entries of the port map in the order text/template ranges over a map:
\* sorted by key
RECURSIVE SortedPorts(_)
SortedPorts(ports) ==
    IF ports = {} THEN <<>>
    ELSE <<LeastPort(ports)>> \o SortedPorts(ports \ {LeastPort(ports)})

\* {{range xs}}<prefix>{{.}}{{end}}
RenderRange(prefix, xs) == Flatten([i \in 1..Len(xs) |-> prefix \o xs[i]])

\* {{$k}}:{{$v}} for each entry
PortStrings(sorted) == [i \in 1..Len(sorted) |-> sorted[i][1] \o <<":">> \o sorted[i][2]]

\* {{.}} for each EnvVarInfo
EnvVarStrings(envs) == [i \in 1..Len(envs) |-> EnvVarString(envs[i])]

\* Build with the environment variables rendered before the port mappings
BuildEnvBeforePorts(p) ==
    TrimSpace(p.Path \o <<SP>> \o p.Cmd
              \o RenderRange(<<SP>>, p.Flags)
              \o RenderRange(<<SP, "-", "-", "u", "i", "d", "m", "a", "p", SP>>, p.UidMaps)
              \o RenderRange(<<SP, "-", "v", SP>>, p.VolumeMaps)
              \o RenderRange(<<SP, "-", "e", SP>>, EnvVarStrings(p.Envvars))
              \o RenderRange(<<SP, "-", "p", SP>>, PortStrings(SortedPorts(p.Ports)))
              \o (IF p.Image # <<>> THEN <<SP>> \o p.Image ELSE <<>>))

\* PodmanCliCommandBuilder.Build: the template, executed on the parts, trimmed
Build(p) ==
    TrimSpace(p.Path \o <<SP>> \o p.Cmd
              \o RenderRange(<<SP>>, p.Flags)
              \o RenderRange(<<SP, "-", "-", "u", "i", "d", "m", "a", "p", SP>>, p.UidMaps)
              \o RenderRange(<<SP, "-", "v", SP>>, p.VolumeMaps)
              \o RenderRange(<<SP, "-", "p", SP>>, PortStrings(SortedPorts(p.Ports)))
              \o RenderRange(<<SP, "-", "e", SP>>, EnvVarStrings(p.Envvars))
              \o (IF p.Image # <<>> THEN <<SP>> \o p.Image ELSE <<>>))

\* error values: Go errors are distinct allocations, told apart here by the number
\* of the operation that created them
NilErr == [kind |-> "nil", code |-> 0, id |-> 0]

\* errors.New("command is not yet supported")
ErrUnsupported(id) == [kind |-> "command is not yet supported", code |-> 0, id |-> id]

\* PodmanCliCommandBuilder.BuildFrom: the builder after the call, the command
\* string and the error
RECURSIVE WithEnvvars(_, _)
WithEnvvars(p, envs) ==
    IF envs = <<>> THEN p
    ELSE WithEnvvars(WithEnvvar(p, Head(envs).Name, Head(envs).Value), Tail(envs))

RECURSIVE WithVolumes(_, _)
WithVolumes(p, vols) ==
    IF vols = <<>> THEN p
    ELSE WithVolumes(WithVolume(p, Head(vols).Name, Head(vols).MountPath), Tail(vols))

\* Build leaving a flag behind on the builder each time it renders
BuiltAccumulates(q) ==
    [parts |-> [q EXCEPT !.Flags = Append(@, <<"-", "d">>)], cmd |-> Build(q), err |-> NilErr]

\* a call of Build on the builder q: the builder after the call, which Build
\* leaves as it is, the string and the error returned
Built(q) == [parts |-> q, cmd |-> Build(q), err |-> NilErr]

\* BuildFrom refusing a command only for a descriptor without image
BuildFromRefusesSome(p, info, id) ==
    IF Len(info.Command) > 0 /\ info.Image = <<>>
    THEN [parts |-> p, cmd |-> <<>>, err |-> ErrUnsupported(id)]
    ELSE Built(WithVolumes(WithEnvvars(WithImage(p, info.Image), info.EnvVars),
                           info.Volumes))

\* BuildFrom populating the builder before it refuses the command
BuildFromRefusesLate(p, info, id) ==
    IF Len(info.Command) > 0
    THEN [parts |-> WithVolumes(WithEnvvars(WithImage(p, info.Image), info.EnvVars),
                                info.Volumes),
          cmd |-> <<>>, err |-> ErrUnsupported(id)]
    ELSE Built(WithVolumes(WithEnvvars(WithImage(p, info.Image), info.EnvVars),
                           info.Volumes))

BuildFrom(p, info, id) ==
    IF Len(info.Command) > 0
    THEN [parts |-> p, cmd |-> <<>>, err |-> ErrUnsupported(id)]
    ELSE Built(WithVolumes(WithEnvvars(WithImage(p, info.Image), info.EnvVars),
                           info.Volumes))

Iif(value, orValue) == IF Len(TrimSpace(value)) = 0 THEN orValue ELSE value

\* defaultFlags := make([]string, 0)
defaultFlags == <<>>

\* NewPodmanCliCommandBuilder(cli): cli is a CliParts or NoDefaults (nil), and
\* envPath the value of ITZ_PODMAN_PATH
NoDefaults == [nil |-> TRUE]

\* the constructor consulting ITZ_PODMAN_PATH whenever no path is supplied, also
\* when a defaults structure is
NewBuilderEnvAlways(cli, envPath) ==
    LET defaults == IF cli = NoDefaults THEN ZeroParts ELSE cli
    IN  [Path |-> Iif(Iif(defaults.Path, envPath), DefaultPodmanPath),
         Cmd |-> Iif(defaults.Cmd, DefaultCmd),
         Image |-> <<>>,
         Workdir |-> Iif(defaults.Workdir, DefaultWorkdir),
         Flags |-> defaults.Flags \o defaultFlags,
         Envvars |-> defaults.Envvars,
         DefaultVolumeOpt |-> <<"Z">>,
         VolumeMaps |-> <<>>,
         Ports |-> {},
         UidMaps |-> <<>>]

\* the constructor keeping the supplied flags in reverse order
NewBuilderReversesFlags(cli, envPath) ==
    LET defaults == IF cli = NoDefaults THEN [ZeroParts EXCEPT !.Path = envPath] ELSE cli
    IN  [Path |-> Iif(defaults.Path, DefaultPodmanPath),
         Cmd |-> Iif(defaults.Cmd, DefaultCmd),
         Image |-> <<>>,
         Workdir |-> Iif(defaults.Workdir, DefaultWorkdir),
         Flags |-> [i \in 1..Len(defaults.Flags) |->
                       defaults.Flags[Len(defaults.Flags) + 1 - i]] \o defaultFlags,
         Envvars |-> defaults.Envvars,
         DefaultVolumeOpt |-> <<"Z">>,
         VolumeMaps |-> <<>>,
         Ports |-> {},
         UidMaps |-> <<>>]

NewPodmanCliCommandBuilder(cli, envPath) ==
    LET defaults == IF cli = NoDefaults THEN [ZeroParts EXCEPT !.Path = envPath] ELSE cli
    IN  [Path |-> Iif(defaults.Path, DefaultPodmanPath),
         Cmd |-> Iif(defaults.Cmd, DefaultCmd),
         Image |-> <<>>,
         Workdir |-> Iif(defaults.Workdir, DefaultWorkdir),
         Flags |-> defaults.Flags \o defaultFlags,
         Envvars |-> defaults.Envvars,
         DefaultVolumeOpt |-> <<"Z">>,
         VolumeMaps |-> <<>>,
         Ports |-> {},
         UidMaps |-> <<>>]

-----------------------------------------------------------------------------
(* RunContext *)

\* a RunContext as the tests construct it: no errors, exit code 0
NewRunContext == [Errors |-> <<>>, LastErrCode |-> 0]

AddError(c, err) == [c EXCEPT !.Errors = Append(@, err)]

\* Reset clearing the whole context, the error list included
ResetClearsErrors(c) == [c EXCEPT !.LastErrCode = 0, !.Errors = <<>>]

Reset(c) == [c EXCEPT !.LastErrCode = 0]

SetLastErrCode(c, errCode) == [c EXCEPT !.LastErrCode = errCode]

\* RunContext.IsErrored
RunContextIsErrored(c) == Len(c.Errors) > 0 \/ c.LastErrCode # 0

-----------------------------------------------------------------------------
(* CliModuleRunner *)

\* the non-zero exit statuses a child process ends with in the model
ExitCodes == {1, 2}

\* what exec.Cmd.Run can do: the process exits 0, exits non-zero (an
\* *exec.ExitError), or cannot be started (another error)
Outcomes == {[kind |-> "ok", code |-> 0], [kind |-> "spawn", code |-> 0]}
            \cup {[kind |-> "exit", code |-> c] : c \in ExitCodes}

OkOutcome == [kind |-> "ok", code |-> 0]

\* the error exec.Cmd.Run returns for an outcome
RunErr(out, id) ==
    IF out.kind = "ok" THEN NilErr ELSE [kind |-> out.kind, code |-> out.code, id |-> id]

\* err.(*exec.ExitError)
IsExitError(err) == err.kind = "exit"

\* Recorded with AddError moved inside the ExitError branch
RecordedOnlyExit(c, err) ==
    IF err # NilErr /\ IsExitError(err) THEN AddError(SetLastErrCode(c, err.code), err) ELSE c

\* Recorded writing the exit-code field for every error: -1, which ExitCode()
\* gives for a process that has not exited, when the process could not be started
RecordedAnyCode(c, err) ==
    IF err = NilErr THEN c
    ELSE AddError(SetLastErrCode(c, IF IsExitError(err) THEN err.code ELSE -1), err)

\* Recorded writing the exit code of a failed process without recording the error
RecordedCodeAlone(c, err) ==
    IF err = NilErr THEN c
    ELSE IF IsExitError(err) THEN SetLastErrCode(c, err.code) ELSE AddError(c, err)

\* the context runCmd leaves for the error exec.Cmd.Run returned
Recorded(c, err) ==
    IF err = NilErr THEN c
    ELSE AddError(IF IsExitError(err) THEN SetLastErrCode(c, err.code) ELSE c, err)

\* runCmd handing the command string to exec.Command unsplit, as the executable
runCmdUnsplit(c, cmd, out, id) ==
    [ctx |-> Recorded(c, RunErr(out, id)), err |-> RunErr(out, id),
     proc |-> <<[argv |-> <<cmd>>, cmd |-> cmd, out |-> out.kind]>>]

\* runCmd starting the process and returning without waiting for it to exit
runCmdStarts(c, cmd, out, id) ==
    [ctx |-> c, err |-> NilErr,
     proc |-> <<[argv |-> Split(cmd), cmd |-> cmd, out |-> "running"]>>]

\* CliModuleRunner.runCmd: the context after the call, the error returned and
\* the process spawned (its argument vector)
runCmd(c, cmd, out, id) ==
    [ctx |-> Recorded(c, RunErr(out, id)), err |-> RunErr(out, id),
     proc |-> <<[argv |-> Split(cmd), cmd |-> cmd, out |-> out.kind]>>]

\* a runner call's result: the builder's parts with what runCmd returned
Ran(q, r) == [parts |-> q, ctx |-> r.ctx, err |-> r.err, proc |-> r.proc]

\* RunImage without the return after a build error: the error is recorded and
\* returned, but the (empty) command is run all the same
RunBuiltSpawns(b, c, out, id) ==
    IF b.err # NilErr
    THEN [Ran(b.parts, runCmd(AddError(c, b.err), b.cmd, out, id)) EXCEPT !.err = b.err]
    ELSE Ran(b.parts, runCmd(c, b.cmd, out, id))

\* RunImage returning the error of BuildFrom without recording it
RunBuiltForgets(b, c, out, id) ==
    IF b.err # NilErr
    THEN [parts |-> b.parts, ctx |-> c, err |-> b.err, proc |-> <<>>]
    ELSE Ran(b.parts, runCmd(c, b.cmd, out, id))

\* RunImage once BuildFrom has returned b
RunBuilt(b, c, out, id) ==
    IF b.err # NilErr
    THEN [parts |-> b.parts, ctx |-> AddError(c, b.err), err |-> b.err, proc |-> <<>>]
    ELSE Ran(b.parts, runCmd(c, b.cmd, out, id))

\* CliModuleRunner.RunImage
RunImage(p, c, info, out, id) == RunBuilt(BuildFrom(p, info, id), c, out, id)

\* CliModuleRunner.Run (Build never returns an error)
Run(p, c, out, id) == Ran(Built(p).parts, runCmd(Reset(c), Built(p).cmd, out, id))

-----------------------------------------------------------------------------
(* Lifecycle states and state commands *)

None == "none"
Invalid == "invalid"
Initializing == "initializing"
Configured == "configured"
Validated == "validated"
PreDeploying == "predeploying"
PreDeployed == "predeployed"
Deploying == "deploying"
Deployed == "deployed"
PostDeploying == "postdeploying"
PostDeployed == "postdeployed"
Done == PostDeployed
Errored == "errored"

\* the zero value of State, which previous holds until the first transition
NoState == ""

States ==
    {None, Invalid, Initializing, Configured, Validated, PreDeploying, PreDeployed,
     Deploying, Deployed, PostDeploying, PostDeployed, Errored}

DefaultOrder ==
    <<Invalid, Initializing, Configured, Validated, PreDeploying, PreDeployed,
      Deploying, Deployed, PostDeploying, PostDeployed, Done>>

\* StateCmd values: the functions of the package that have that type
NilCmd == [fn |-> "nil", to |-> NoState]
NoopHandler == [fn |-> "NoopHandler", to |-> NoState]
DoneHandler == [fn |-> "DoneHandler", to |-> NoState]
ResolveStateCmd == [fn |-> "resolveState", to |-> NoState]
PreDeployCmd == [fn |-> "preDeploy", to |-> NoState]
DeployCmd == [fn |-> "deploy", to |-> NoState]
PostDeployCmd == [fn |-> "postDeploy", to |-> NoState]
AdvanceToCmd(s) == [fn |-> "advanceTo", to |-> s]

\* the stage whose image a state command runs, if it runs one
StageOf(h) ==
    CASE h.fn = "preDeploy" -> "pre_deploy"
      [] h.fn = "deploy" -> "deploy"
      [] h.fn = "postDeploy" -> "post_deploy"
      [] OTHER -> "none"

\* Hook names
ListHook == "list"
ValidateHook == "validate"
GetStateHook == "get_state"
Hooks == {ListHook, ValidateHook, GetStateHook}

-----------------------------------------------------------------------------
(* DeployableModule: d is the module's own state [current, previous, parts],  *)
(* c the *RunContext the caller passes; the Notifier passed is the module.    *)

\* Notify setting the current state only
NotifyForgets(d, state) == [d EXCEPT !.current = state]

\* DeployableModule.Notify
Notify(d, state) == [d EXCEPT !.previous = d.current, !.current = state]

\* DeployableModule.IsErrored
IsErrored(cur) == cur = Errored

\* the result of a StateCmd that runs no image
Plain(d, c) == [d |-> d, ctx |-> c, err |-> NilErr, proc |-> <<>>]

\* advanceTo notifying the state the module is in instead of the one given
advanceToStays(s, d, c) == Plain(Notify(d, d.current), c)

\* the closure advanceTo(s) returns
advanceTo(s, d, c) == Plain(Notify(d, s), c)

\* resolveState notifying the state after the one it should
resolveStateSkips(d, c) == Plain(Notify(d, Validated), c)

\* DeployableModule.resolveState
resolveState(d, c) == Plain(Notify(d, Configured), c)

\* NoopHandler
NoopHandlerRun(d, c) == Plain(Notify(d, Invalid), c)

\* DoneHandler with the body of NoopHandler
DoneHandlerNotifies(d, c) == Plain(Notify(d, Invalid), c)

\* DoneHandler
DoneHandlerRun(d, c) == Plain(d, c)

\* what a stage command returns once RunImage has returned r: Notify(Errored) or
\* Notify(finished), and the error
Staged(d1, r, finished) ==
    [d |-> IF r.err # NilErr
           THEN Notify([d1 EXCEPT !.parts = r.parts], Errored)
           ELSE Notify([d1 EXCEPT !.parts = r.parts], finished),
     ctx |-> r.ctx, err |-> r.err, proc |-> r.proc]

\* preDeploy without the check of the error RunImage returned
preDeployIgnoresErr(d, c, mod, out, id) ==
    Staged(Notify(d, PreDeploying),
           [RunImage(d.parts, c, mod.PreDeploy, out, id) EXCEPT !.err = NilErr], PreDeployed)

\* DeployableModule.preDeploy
preDeploy(d, c, mod, out, id) ==
    Staged(Notify(d, PreDeploying), RunImage(d.parts, c, mod.PreDeploy, out, id), PreDeployed)

\* deploy notifying Deployed whatever RunImage returned, and returning the error
deployAlwaysDeployed(d, c, mod, out, id) ==
    [Staged(Notify(d, Deploying), RunImage(d.parts, c, mod.Deploy, out, id), Deployed)
        EXCEPT !.d.current = Deployed]

\* DeployableModule.deploy
deploy(d, c, mod, out, id) ==
    Staged(Notify(d, Deploying), RunImage(d.parts, c, mod.Deploy, out, id), Deployed)

\* postDeploy with the error check inverted
postDeployInverted(d, c, mod, out, id) ==
    [Staged(Notify(d, PostDeploying), RunImage(d.parts, c, mod.PostDeploy, out, id),
            PostDeployed)
        EXCEPT !.d.current = IF @ = Errored THEN PostDeployed ELSE Errored]

\* DeployableModule.postDeploy
postDeploy(d, c, mod, out, id) ==
    Staged(Notify(d, PostDeploying), RunImage(d.parts, c, mod.PostDeploy, out, id),
           PostDeployed)

\* calling the StateCmd h with (c, module): the module and the context after the
\* call, the error returned and the process spawned
Invoke(h, d, c, mod, out, id) ==
    CASE h.fn = "advanceTo" -> advanceTo(h.to, d, c)
      [] h.fn = "resolveState" -> resolveState(d, c)
      [] h.fn = "preDeploy" -> preDeploy(d, c, mod, out, id)
      [] h.fn = "deploy" -> deploy(d, c, mod, out, id)
      [] h.fn = "postDeploy" -> postDeploy(d, c, mod, out, id)
      [] h.fn = "NoopHandler" -> NoopHandlerRun(d, c)
      [] h.fn = "DoneHandler" -> DoneHandlerRun(d, c)

\* whether the call spawns a process whose outcome is the environment's choice
RunsImage(h) == StageOf(h) # "none"

\* DeployableModule.GetCmdFor
GetCmdFor(cm, status) == cm[status]

\* fmt.Errorf("handler for state %s already exists", status)
ErrExists(status) == [kind |-> "handler already exists", code |-> 0, id |-> 0]

\* AddCmd storing the handler before it reports the duplicate
AddCmdOverwrites(cm, status, handler) ==
    [cmds |-> [cm EXCEPT ![status] = handler],
     err |-> IF cm[status] = NilCmd THEN NilErr ELSE ErrExists(status)]

\* DeployableModule.AddCmd: the map after the call and the error returned
AddCmd(cm, status, handler) ==
    IF cm[status] = NilCmd
    THEN [cmds |-> [cm EXCEPT ![status] = handler], err |-> NilErr]
    ELSE [cmds |-> cm, err |-> ErrExists(status)]

\* the index of the first entry of the order that equals cur, 0 if none
FirstIndex(order, cur) ==
    IF \E i \in 1..Len(order) : order[i] = cur
    THEN CHOOSE i \in 1..Len(order) : order[i] = cur /\ \A j \in 1..(i - 1) : order[j] # cur
    ELSE 0

\* NextFunc returning the handler of the state that follows the current one
NextFuncFollowing(cur, cm, order) ==
    IF cur \in {Done, Errored} \/ FirstIndex(order, cur) = 0
    THEN [cmd |-> DoneHandler, more |-> FALSE, panic |-> FALSE]
    ELSE [cmd |-> GetCmdFor(cm, order[FirstIndex(order, cur) + 1]), more |-> TRUE,
          panic |-> FALSE]

\* the index of the last entry of the order that equals cur, 0 if none
LastIndex(order, cur) ==
    IF \E i \in 1..Len(order) : order[i] = cur
    THEN CHOOSE i \in 1..Len(order) : order[i] = cur /\ \A j \in (i + 1)..Len(order) : order[j] # cur
    ELSE 0

\* NextFunc without the test for done, taking the last entry of the order that
\* matches the current state
NextFuncScansToEnd(cur, cm, order) ==
    IF cur = Errored THEN [cmd |-> DoneHandler, more |-> FALSE, panic |-> FALSE]
    ELSE IF LastIndex(order, cur) = 0
         THEN [cmd |-> NoopHandler, more |-> FALSE, panic |-> FALSE]
         ELSE IF LastIndex(order, cur) + 1 > Len(order)
              THEN [cmd |-> NilCmd, more |-> FALSE, panic |-> TRUE]
              ELSE [cmd |-> GetCmdFor(cm, order[LastIndex(order, cur)]), more |-> TRUE,
                    panic |-> FALSE]

\* the NextFunc returned by DeployableModule.Itr: the pair it returns, and whether
\* reading execOrder[idx+1] for the trace line is out of range (a panic)
NextFunc(cur, cm, order) ==
    IF cur = Done THEN [cmd |-> DoneHandler, more |-> FALSE, panic |-> FALSE]
    ELSE IF cur = Errored THEN [cmd |-> DoneHandler, more |-> FALSE, panic |-> FALSE]
    ELSE LET idx == FirstIndex(order, cur)
         IN  IF idx = 0 THEN [cmd |-> NoopHandler, more |-> FALSE, panic |-> FALSE]
             ELSE IF idx + 1 > Len(order)
                  THEN [cmd |-> NilCmd, more |-> FALSE, panic |-> TRUE]
                  ELSE [cmd |-> GetCmdFor(cm, order[idx]), more |-> TRUE, panic |-> FALSE]

\* the registrations without the handler for deployed
RegistrationsWithoutDeployed ==
    <<<<Invalid, AdvanceToCmd(Initializing)>>,
      <<Initializing, ResolveStateCmd>>,
      <<Configured, AdvanceToCmd(Validated)>>,
      <<Validated, AdvanceToCmd(PreDeploying)>>,
      <<PreDeploying, PreDeployCmd>>,
      <<PreDeployed, AdvanceToCmd(Deploying)>>,
      <<Deploying, DeployCmd>>,
      <<PostDeploying, PostDeployCmd>>,
      <<PostDeployed, AdvanceToCmd(Done)>>>>

\* the cmds map NewDeployableModule registers, by its ten AddCmd calls in order
Registrations ==
    <<<<Invalid, AdvanceToCmd(Initializing)>>,
      <<Initializing, ResolveStateCmd>>,
      <<Configured, AdvanceToCmd(Validated)>>,
      <<Validated, AdvanceToCmd(PreDeploying)>>,
      <<PreDeploying, PreDeployCmd>>,
      <<PreDeployed, AdvanceToCmd(Deploying)>>,
      <<Deploying, DeployCmd>>,
      <<Deployed, AdvanceToCmd(PostDeploying)>>,
      <<PostDeploying, PostDeployCmd>>,
      <<PostDeployed, AdvanceToCmd(Done)>>>>

RECURSIVE AddCmds(_, _)
AddCmds(cm, regs) ==
    IF regs = <<>> THEN cm
    ELSE AddCmds(AddCmd(cm, Head(regs)[1], Head(regs)[2]).cmds, Tail(regs))

\* the directory the program is executed in
ExecDir == <<"/", "c", "w", "d">>

\* NewDeployableModule seeding the builder with the execution workspace, as the
\* package's earlier constructor did
NewDeployableModuleWithWorkspace(runCtx, mod, envPath) ==
    [module |-> mod,
     parts |-> WithWorkspace(NewPodmanCliCommandBuilder(NoDefaults, envPath), ExecDir),
     runCtx |-> runCtx,
     execOrder |-> DefaultOrder,
     current |-> Invalid,
     previous |-> NoState,
     cmds |-> AddCmds([s \in States |-> NilCmd], Registrations)]

\* NewDeployableModule(runCtx, module) with ITZ_PODMAN_PATH = envPath
NewDeployableModule(runCtx, mod, envPath) ==
    [module |-> mod,
     parts |-> NewPodmanCliCommandBuilder(NoDefaults, envPath),
     runCtx |-> runCtx,
     execOrder |-> DefaultOrder,
     current |-> Invalid,
     previous |-> NoState,
     cmds |-> AddCmds([s \in States |-> NilCmd], Registrations)]

\* what a hook command returns once RunImage has returned r
Hooked(d, r) == [d |-> [d EXCEPT !.parts = r.parts], ctx |-> r.ctx, err |-> r.err, proc |-> r.proc]

\* a hook command that reports its failure to the notifier, as the stages do
HookCmdNotifies(d, c, img, out, id) ==
    [Hooked(d, RunImage(d.parts, c, img, out, id))
        EXCEPT !.d = IF RunImage(d.parts, c, img, out, id).err # NilErr
                     THEN Notify(@, Errored)
                     ELSE @]

\* the hook command getHookCmd(img) returns, called with c
HookCmd(d, c, img, out, id) == Hooked(d, RunImage(d.parts, c, img, out, id))

\* the image descriptor a stage command runs
StageImage(mod, h) ==
    CASE h.fn = "preDeploy" -> mod.PreDeploy
      [] h.fn = "deploy" -> mod.Deploy
      [] h.fn = "postDeploy" -> mod.PostDeploy

\* the image descriptor a hook name is bound to at construction
HookImage(mod, name) ==
    CASE name = ListHook -> mod.List
      [] name = ValidateHook -> mod.Validate
      [] name = GetStateHook -> mod.GetState

-----------------------------------------------------------------------------
(* ModuleInfo validation and ManifestFileLoader *)

apiVersionSeparator == "/"

apiName == <<"i", "t", "z", "c", "l", "i">>

apiVersionv1Alpha1 == <<"v", "1", "a", "l", "p", "h", "a", "1">>

installKind == <<"I", "n", "s", "t", "a", "l", "l", "M", "a", "n", "i", "f", "e", "s", "t">>

supportedAPIVersions == <<apiVersionv1Alpha1>>

\* strings.Split(s, sep) for a one-character separator
SplitOn(s, sep) ==
    LET seps == SelectSeq([i \in 1..Len(s) |-> i], LAMBDA i : s[i] = sep)
        n    == Len(seps)
    IN  [k \in 1..(n + 1) |->
            SubSeq(s, IF k = 1 THEN 1 ELSE seps[k - 1] + 1,
                      IF k = n + 1 THEN Len(s) ELSE seps[k] - 1)]

\* fmt.Errorf("invalid apiVersion format: %s", val)
ErrInvalidApiVersion == [kind |-> "invalid apiVersion format", code |-> 0, id |-> 0]

\* the nil *ApiVersion
NilApiVersion == [nil |-> TRUE]

\* ParseApiVersion taking the first two parts of a longer value
ParseApiVersionLoose(val) ==
    IF Len(SplitOn(val, apiVersionSeparator)) < 2
    THEN [ver |-> NilApiVersion, err |-> ErrInvalidApiVersion]
    ELSE [ver |-> [Namespace |-> SplitOn(val, apiVersionSeparator)[1],
                   Version |-> SplitOn(val, apiVersionSeparator)[2]],
          err |-> NilErr]

\* ParseApiVersion: the *ApiVersion and the error returned
ParseApiVersion(val) ==
    IF Len(SplitOn(val, apiVersionSeparator)) # 2
    THEN [ver |-> NilApiVersion, err |-> ErrInvalidApiVersion]
    ELSE [ver |-> [Namespace |-> SplitOn(val, apiVersionSeparator)[1],
                   Version |-> SplitOn(val, apiVersionSeparator)[2]],
          err |-> NilErr]

\* ModuleInfo.IsSupportedKind
IsSupportedKind(m) == m.Kind = installKind

\* ModuleInfo.IsSupportedVersion
IsSupportedVersion(m) ==
    IF ParseApiVersion(m.ApiVersion).err # NilErr THEN FALSE
    ELSE IF ParseApiVersion(m.ApiVersion).ver.Namespace # apiName THEN FALSE
    ELSE \E i \in 1..Len(supportedAPIVersions) :
             ParseApiVersion(m.ApiVersion).ver.Version = supportedAPIVersions[i]

\* ModuleInfo.IsSupported
IsSupported(m) == IsSupportedKind(m) /\ IsSupportedVersion(m)

\* the nil *ModuleInfo
NilModule == [nil |-> TRUE]

\* the errors of ioutil.ReadFile and yaml.Unmarshal
ErrRead(id) == [kind |-> "read", code |-> 0, id |-> id]
ErrYaml(id) == [kind |-> "yaml", code |-> 0, id |-> id]

\* fmt.Errorf("module version %s is not supported", module.ApiVersion)
ErrNotSupported(id) == [kind |-> "module version is not supported", code |-> 0, id |-> id]

\* ManifestFileLoader.Load on a file: whether it can be read, whether its
\* content is YAML that fits a ModuleInfo, and the ModuleInfo it then unmarshals to
Load(file, id) ==
    IF ~file.readable THEN [module |-> NilModule, err |-> ErrRead(id)]
    ELSE IF ~file.yaml THEN [module |-> NilModule, err |-> ErrYaml(id)]
    ELSE [module |-> file.content,
          err |-> IF ~IsSupported(file.content) THEN ErrNotSupported(id) ELSE NilErr]

-----------------------------------------------------------------------------
(* Inputs *)

EnvA == [Name |-> <<"A">>, Value |-> <<"x">>]
EnvB == [Name |-> <<"B">>, Value |-> <<"y">>]
VolT == [Name |-> <<"/", "t">>, MountPath |-> <<"/", "w">>]

ImageInfo(image, command, envs, vols) ==
    [Image |-> image, Command |-> command, EnvVars |-> envs, Volumes |-> vols]

\* the stage a manifest gives an (unsupported) command to, if any
CommandStages == {"none", "pre_deploy", "deploy", "post_deploy"}

CommandOf(stage, withCmd) == IF stage = withCmd THEN <<<<"s", "h">>>> ELSE <<>>

\* the module descriptors the model is run on
ModuleInfo(withCmd) ==
    [PreDeploy  |-> ImageInfo(<<"p", "r", "e">>, CommandOf("pre_deploy", withCmd),
                              <<EnvA>>, <<VolT>>),
     Deploy     |-> ImageInfo(<<"d", "e", "p">>, CommandOf("deploy", withCmd), <<EnvB>>, <<>>),
     PostDeploy |-> ImageInfo(<<"p", "o", "s", "t">>, CommandOf("post_deploy", withCmd),
                              <<>>, <<>>),
     List       |-> ImageInfo(<<"l", "s">>, <<>>, <<EnvA>>, <<>>),
     Validate   |-> ImageInfo(<<"v", "a", "l">>, <<>>, <<>>, <<>>),
     GetState   |-> ImageInfo(<<"g", "s">>, <<>>, <<>>, <<VolT>>)]

\* the image descriptors handed to RunImage on a stand-alone runner: a bare image,
\* one with a variable and a volume, one with a command
CliImages ==
    {ImageInfo(<<"i", "m", "g">>, <<>>, <<>>, <<>>),
     ImageInfo(<<"e", "n", "v">>, <<>>, <<EnvA>>, <<VolT>>),
     ImageInfo(<<"c", "m", "d">>, <<<<"s", "h">>>>, <<EnvB>>, <<>>)}

\* the defaults handed to NewPodmanCliCommandBuilder: nil, a structure with a
\* path, a subcommand and flags, one with a blank path and a variable, and one
\* whose subcommand has a space in it
CliDefaults ==
    {NoDefaults,
     [ZeroParts EXCEPT !.Path = <<"/", "b", "i", "n", "/", "l", "s">>,
                       !.Cmd = <<"m", "o", "o">>, !.Flags = <<<<"-", "d">>>>],
     [ZeroParts EXCEPT !.Path = <<" ">>, !.Envvars = <<EnvB>>],
     [ZeroParts EXCEPT !.Cmd = <<"p", "s", " ", "-", "a">>]}

\* the values of ITZ_PODMAN_PATH: unset, or a path
EnvPaths == {<<>>, <<"/", "b", "/", "p", "m">>}

\* the states the caller passes to Notify
NotifyStates == {PreDeploying, Deploying, PostDeploying, Done, Errored, None}

\* the states the caller passes to NotifyErr
NotifyErrStates == {Errored}

\* the states the caller passes to AddCmd: one with a handler, one without
AddCmdStates == {Invalid, Errored}

\* the states the caller passes to GetCmdFor
CmdForStates ==
    {Invalid, Initializing, PreDeploying, Deploying, PostDeploying, PostDeployed, Errored}

\* the handlers the caller offers to AddCmd
AddCmdHandlers == {DoneHandler, AdvanceToCmd(Invalid)}

\* the error the caller passes to NotifyErr
CallerErr == [kind |-> "caller", code |-> 0, id |-> 0]

-----------------------------------------------------------------------------
(* The state machine *)

NoStep == [cmd |-> NilCmd, more |-> FALSE, panic |-> FALSE]

NoImage == ImageInfo(<<>>, <<>>, <<>>, <<>>)

NoOp == [op |-> "new", cmd |-> NilCmd, arg |-> NoState, info |-> NoImage, out |-> "none",
         err |-> NilErr, current |-> NoState, previous |-> NoState, ctx |-> NewRunContext,
         cmds |-> <<>>, parts |-> ZeroParts, args |-> <<>>, res |-> <<>>,
         cli |-> NoDefaults, env |-> <<>>]

\* what an operation leaves in last: its name, the command it called, its
\* state or hook argument, the image descriptor it ran, the outcome of the process
\* it spawned, the error it returned, and the state it started from; for the
\* builder's operations also their string arguments (args), the string returned
\* (res; for IsErrored and State the value returned, as a one-element sequence),
\* and the constructor's defaults and environment (cli, env)
OpOn(name, cmd, arg, info, out, err) ==
    [op |-> name, cmd |-> cmd, arg |-> arg, info |-> info, out |-> out, err |-> err,
     current |-> current, previous |-> previous, ctx |-> ctx, cmds |-> cmds,
     parts |-> parts, args |-> <<>>, res |-> <<>>, cli |-> NoDefaults, env |-> <<>>]

Op(name, cmd, arg, out, err) == OpOn(name, cmd, arg, NoImage, out, err)

\* the state after NewDeployableModule(&RunContext{}, ModuleInfo(withCmd))
Constructed(withCmd, envPath) ==
    \E m \in {NewDeployableModule(NewRunContext, ModuleInfo(withCmd), envPath)} :
        /\ module = m.module
        /\ cmds = m.cmds
        /\ current = m.current
        /\ previous = m.previous
        /\ modCtx = m.runCtx
        /\ parts = m.parts
        /\ ctx = NewRunContext
        /\ step = NoStep
        /\ pc = "next"
        /\ last = NoOp
        /\ ran = <<>>
        /\ nsteps = 0
        /\ nops = 0

Init == \E withCmd \in CommandStages, envPath \in EnvPaths : Constructed(withCmd, envPath)

\* the outcomes the environment can give the call of h
OutcomesOf(h) == IF RunsImage(h) THEN Outcomes ELSE {OkOutcome}

\* the module's own state, as the commands read it
Self == [current |-> current, previous |-> previous, parts |-> parts]

\* the outcome a call leaves in last: none when no process was spawned
Seen(r, out) == IF r.proc # <<>> THEN out.kind ELSE "none"

\* next() making the transition itself instead of leaving it to the handler
CallNextAdvances ==
    \E r \in {NextFunc(current, cmds, DefaultOrder)} :
        /\ ~r.panic
        /\ step' = r
        /\ last' = Op("Next", r.cmd, NoState, "none", NilErr)
        /\ previous' = current
        /\ current' = IF r.more /\ ~RunsImage(r.cmd)
                      THEN Invoke(r.cmd, Self, ctx, module, OkOutcome, 0).d.current
                      ELSE current
        /\ UNCHANGED <<module, cmds, modCtx, parts, ctx, ran>>

\* next(): the caller asks the NextFunc for the next step
CallNext ==
    \E r \in {NextFunc(current, cmds, DefaultOrder)} :
        /\ ~r.panic
        /\ step' = r
        /\ last' = Op("Next", r.cmd, NoState, "none", NilErr)
        /\ UNCHANGED <<module, cmds, current, previous, modCtx, parts, ctx, ran>>

\* h(runCtx, module): the caller invokes a state command
CallCmd(name, h, arg, out) ==
    /\ h # NilCmd
    /\ \E r \in {Invoke(h, Self, ctx, module, out, Len(ran) + 1)} :
        /\ current' = r.d.current
        /\ previous' = r.d.previous
        /\ parts' = r.d.parts
        /\ ctx' = r.ctx
        /\ ran' = IF RunsImage(h)
                  THEN Append(ran, [who |-> StageOf(h), proc |-> r.proc, err |-> r.err])
                  ELSE ran
        /\ last' = OpOn(name, h, arg, IF RunsImage(h) THEN StageImage(module, h) ELSE NoImage,
                        Seen(r, out), r.err)
        /\ UNCHANGED <<module, cmds, modCtx>>

\* GetHook(name)(runCtx): the caller invokes a hook
CallHook(name, out) ==
    \E r \in {HookCmd(Self, ctx, HookImage(module, name), out, Len(ran) + 1)} :
        /\ current' = r.d.current
        /\ previous' = r.d.previous
        /\ parts' = r.d.parts
        /\ ctx' = r.ctx
        /\ ran' = Append(ran, [who |-> name, proc |-> r.proc, err |-> r.err])
        /\ last' = OpOn("Hook", NilCmd, name, HookImage(module, name), Seen(r, out), r.err)
        /\ UNCHANGED <<module, cmds, modCtx>>

(* Spec: the caller uses the module's API freely, MaxOps calls at most *)

ItrNext ==
    /\ nops < MaxOps
    /\ CallNext
    /\ nops' = nops + 1
    /\ UNCHANGED <<pc, nsteps>>

InvokeStep ==
    /\ nops < MaxOps
    /\ step # NoStep
    /\ \E out \in OutcomesOf(step.cmd) : CallCmd("Step", step.cmd, NoState, out)
    /\ nops' = nops + 1
    /\ nsteps' = IF step.more THEN nsteps + 1 ELSE nsteps
    /\ UNCHANGED <<step, pc>>

InvokeCmdFor ==
    /\ nops < MaxOps
    /\ \E s \in CmdForStates :
           \E out \in OutcomesOf(GetCmdFor(cmds, s)) :
               CallCmd("CmdFor", GetCmdFor(cmds, s), s, out)
    /\ nops' = nops + 1
    /\ UNCHANGED <<step, pc, nsteps>>

CallNotify ==
    /\ nops < MaxOps
    /\ \E s \in NotifyStates :
           \E d \in {Notify(Self, s)} :
               /\ current' = d.current
               /\ previous' = d.previous
               /\ last' = Op("Notify", NilCmd, s, "none", NilErr)
    /\ nops' = nops + 1
    /\ UNCHANGED <<module, cmds, modCtx, parts, ctx, step, pc, ran, nsteps>>

\* NotifyErr recording the error in the Run Context the caller holds
CallNotifyErrShared ==
    /\ nops < MaxOps
    /\ \E s \in NotifyErrStates :
           /\ ctx' = AddError(ctx, CallerErr)
           /\ previous' = current
           /\ current' = s
           /\ last' = Op("NotifyErr", NilCmd, s, "none", NilErr)
    /\ nops' = nops + 1
    /\ UNCHANGED <<module, cmds, parts, modCtx, step, pc, ran, nsteps>>

\* DeployableModule.NotifyErr
CallNotifyErr ==
    /\ nops < MaxOps
    /\ \E s \in NotifyErrStates :
           /\ modCtx' = AddError(modCtx, CallerErr)
           /\ previous' = current
           /\ current' = s
           /\ last' = Op("NotifyErr", NilCmd, s, "none", NilErr)
    /\ nops' = nops + 1
    /\ UNCHANGED <<module, cmds, parts, ctx, step, pc, ran, nsteps>>

CallAddCmd ==
    /\ nops < MaxOps
    /\ \E s \in AddCmdStates, h \in AddCmdHandlers :
           \E r \in {AddCmd(cmds, s, h)} :
               /\ cmds' = r.cmds
               /\ last' = Op("AddCmd", h, s, "none", r.err)
    /\ nops' = nops + 1
    /\ UNCHANGED <<module, current, previous, modCtx, parts, ctx, step, pc, ran, nsteps>>

\* module.IsErrored(): res is the value returned
CallIsErrored ==
    /\ nops < MaxOps
    /\ last' = [Op("IsErrored", NilCmd, NoState, "none", NilErr)
                   EXCEPT !.res = <<IsErrored(current)>>]
    /\ nops' = nops + 1
    /\ UNCHANGED <<module, cmds, current, previous, modCtx, parts, ctx, step, pc, ran, nsteps>>

\* module.State(): res is the value returned
CallState ==
    /\ nops < MaxOps
    /\ last' = [Op("State", NilCmd, NoState, "none", NilErr) EXCEPT !.res = <<current>>]
    /\ nops' = nops + 1
    /\ UNCHANGED <<module, cmds, current, previous, modCtx, parts, ctx, step, pc, ran, nsteps>>

Next ==
    \/ ItrNext
    \/ InvokeStep
    \/ InvokeCmdFor
    \/ CallNotify
    \/ CallNotifyErr
    \/ CallAddCmd
    \/ CallIsErrored
    \/ CallState

Spec == Init /\ [][Next]_vars

(* SpecItr: the caller drives the module as the tests do,                   *)
(*   for next, hasNext := module.Itr(); hasNext; { step, hasNext = next();  *)
(*   step(runCtx, module) }                                                 *)
(* and may invoke hooks between the calls, MaxHooks of them at most         *)

LoopNext ==
    /\ pc = "next"
    /\ CallNext
    /\ pc' = "invoke"
    /\ UNCHANGED <<nsteps, nops>>

LoopInvoke ==
    /\ pc = "invoke"
    /\ \E out \in OutcomesOf(step.cmd) : CallCmd("Step", step.cmd, NoState, out)
    /\ pc' = IF step.more THEN "next" ELSE "end"
    /\ nsteps' = IF step.more THEN nsteps + 1 ELSE nsteps
    /\ UNCHANGED <<step, nops>>

LoopHook ==
    /\ nops < MaxHooks
    /\ \E name \in Hooks, out \in Outcomes : CallHook(name, out)
    /\ nops' = nops + 1
    /\ UNCHANGED <<step, pc, nsteps>>

NextItr ==
    \/ LoopNext
    \/ LoopInvoke
    \/ LoopHook

SpecItr == Init /\ [][NextItr]_vars

(* SpecCli: a CliModuleRunner of its own, as in                             *)
(*   runner := CliModuleRunner{*NewPodmanCliCommandBuilder(defaults)}       *)
(* run on a fresh RunContext, MaxCliOps calls at most                       *)

InitCli ==
    \E cli \in CliDefaults, envPath \in EnvPaths :
        /\ parts = NewPodmanCliCommandBuilder(cli, envPath)
        /\ ctx = NewRunContext
        /\ module = ModuleInfo("none")
        /\ cmds = [s \in States |-> NilCmd]
        /\ current = None
        /\ previous = NoState
        /\ modCtx = NewRunContext
        /\ step = NoStep
        /\ pc = "cli"
        /\ last = NoOp
        /\ ran = <<>>
        /\ nsteps = 0
        /\ nops = 0

\* what a call on the runner leaves behind
CliCall(name, info, out, r) ==
    /\ parts' = r.parts
    /\ ctx' = r.ctx
    /\ ran' = Append(ran, [who |-> name, proc |-> r.proc, err |-> r.err])
    /\ last' = OpOn(name, NilCmd, NoState, info, Seen(r, out), r.err)
    /\ nops' = nops + 1
    /\ UNCHANGED <<module, cmds, current, previous, modCtx, step, pc, nsteps>>

CliRun ==
    /\ nops < MaxCliOps
    /\ \E out \in Outcomes : CliCall("Run", NoImage, out, Run(parts, ctx, out, Len(ran) + 1))

CliRunImage ==
    /\ nops < MaxCliOps
    /\ \E info \in CliImages, out \in Outcomes :
           CliCall("RunImage", info, out, RunImage(parts, ctx, info, out, Len(ran) + 1))

\* ctx.Reset()
CliReset ==
    /\ nops < MaxCliOps
    /\ ctx' = Reset(ctx)
    /\ last' = Op("Reset", NilCmd, NoState, "none", NilErr)
    /\ nops' = nops + 1
    /\ UNCHANGED <<module, cmds, current, previous, modCtx, parts, step, pc, ran, nsteps>>

\* a setter of the builder called between runs
CliSet(name, q) ==
    /\ nops < MaxCliOps
    /\ parts' = q
    /\ last' = Op(name, NilCmd, NoState, "none", NilErr)
    /\ nops' = nops + 1
    /\ UNCHANGED <<module, cmds, current, previous, modCtx, ctx, step, pc, ran, nsteps>>

\* runner.Build(), as the tests call it after Run
CliBuild ==
    /\ nops < MaxCliOps
    /\ \E b \in {Built(parts)} :
           /\ parts' = b.parts
           /\ last' = [Op("Build", NilCmd, NoState, "none", b.err) EXCEPT !.res = b.cmd]
    /\ nops' = nops + 1
    /\ UNCHANGED <<module, cmds, current, previous, modCtx, ctx, step, pc, ran, nsteps>>

CliWithImage == CliSet("WithImage", WithImage(parts, <<"i", "m", "g">>))

CliWithEnvvar == CliSet("WithEnvvar", WithEnvvar(parts, EnvA.Name, EnvA.Value))

NextCli ==
    \/ CliRun
    \/ CliRunImage
    \/ CliReset
    \/ CliBuild
    \/ CliWithImage
    \/ CliWithEnvvar

SpecCli == InitCli /\ [][NextCli]_vars

(* SpecBld: a PodmanCliCommandBuilder on its own: constructed from defaults, *)
(* then configured and built, MaxBldOps calls at most                       *)

\* the defaults handed to the constructor: nil; a path, a subcommand, flags and
\* a variable; a blank path and subcommand with a workspace path
BldDefaults ==
    {NoDefaults,
     [ZeroParts EXCEPT !.Path = <<"/", "b", "i", "n", "/", "l", "s">>,
                       !.Cmd = <<"m", "o", "o">>,
                       !.Flags = <<<<"-", "d">>, <<"-", "-", "r", "m">>>>,
                       !.Envvars = <<EnvB>>],
     [ZeroParts EXCEPT !.Path = <<" ">>, !.Cmd = <<" ", " ">>, !.Workdir = <<"/", "w", "s">>]}

\* the values of ITZ_PODMAN_PATH: unset, blank, or a path
BldEnvPaths == {<<>>, <<" ">>, <<"/", "b", "/", "p", "m">>}

\* the descriptors handed to BuildFrom: with and without a command, the other
\* fields varying
BldImages ==
    CliImages \cup {ImageInfo(<<>>, <<<<"s", "h">>>>, <<>>, <<VolT>>),
                    ImageInfo(<<>>, <<>>, <<EnvB>>, <<>>)}

\* the arguments of WithPort: two host ports, one of them mapped twice
BldPorts ==
    {<<<<"8", "0">>, <<"8", "0", "8", "0">>>>,
     <<<<"8", "0">>, <<"9", "0">>>>,
     <<<<"4", "4", "3">>, <<"8", "0", "8", "0">>>>}

\* the arguments of WithEnvvar: one name with two values
BldEnvvars == {EnvA, [Name |-> <<"A">>, Value |-> <<"z">>]}

\* the arguments of WithUserMap
BldUserMaps == {<<0, 1000, 1>>, <<1, 0, 1000>>}

InitBld ==
    \E cli \in BldDefaults, envPath \in BldEnvPaths :
        /\ parts = NewPodmanCliCommandBuilder(cli, envPath)
        /\ last = [NoOp EXCEPT !.op = "New", !.cli = cli, !.env = envPath]
        /\ ctx = NewRunContext
        /\ module = ModuleInfo("none")
        /\ cmds = [s \in States |-> NilCmd]
        /\ current = None
        /\ previous = NoState
        /\ modCtx = NewRunContext
        /\ step = NoStep
        /\ pc = "bld"
        /\ ran = <<>>
        /\ nsteps = 0
        /\ nops = 0

\* a call on the builder: the parts it leaves, its string arguments, the string
\* and the error it returns; last.cli stays the defaults the builder was made from
BldCall(name, args, info, q, res, err) ==
    /\ nops < MaxBldOps
    /\ parts' = q
    /\ last' = [OpOn(name, NilCmd, NoState, info, "none", err)
                   EXCEPT !.args = args, !.res = res, !.cli = last.cli]
    /\ nops' = nops + 1
    /\ UNCHANGED <<module, cmds, current, previous, modCtx, ctx, step, pc, ran, nsteps>>

BldSet(name, args, q) == BldCall(name, args, NoImage, q, <<>>, NilErr)

BldWithPath ==
    \E path \in {<<"/", "b">>} : BldSet("WithPath", <<path>>, WithPath(parts, path))

BldWithImage ==
    \E img \in {<<>>, <<"i", "m", "g">>} : BldSet("WithImage", <<img>>, WithImage(parts, img))

BldWithVolume ==
    BldSet("WithVolume", <<VolT.Name, VolT.MountPath>>,
           WithVolume(parts, VolT.Name, VolT.MountPath))

BldWithVolumeOpt ==
    \E opt \in {<<>>, <<"Z">>} :
        BldSet("WithVolumeOpt", <<VolT.Name, VolT.MountPath, opt>>,
               WithVolumeOpt(parts, VolT.Name, VolT.MountPath, opt))

BldWithWorkspace ==
    \E dir \in {<<"/", "h">>} : BldSet("WithWorkspace", <<dir>>, WithWorkspace(parts, dir))

BldWithUserMap ==
    \E u \in BldUserMaps :
        BldSet("WithUserMap", <<Itoa(u[1]), Itoa(u[2]), Itoa(u[3])>>,
               WithUserMap(parts, u[1], u[2], u[3]))

BldWithPort ==
    \E pr \in BldPorts : BldSet("WithPort", pr, WithPort(parts, pr[1], pr[2]))

BldWithEnvvar ==
    \E e \in BldEnvvars :
        BldSet("WithEnvvar", <<e.Name, e.Value>>, WithEnvvar(parts, e.Name, e.Value))

BldBuild ==
    \E b \in {Built(parts)} : BldCall("Build", <<>>, NoImage, b.parts, b.cmd, b.err)

BldBuildFrom ==
    \E info \in BldImages :
        \E b \in {BuildFrom(parts, info, nops + 1)} :
            BldCall("BuildFrom", <<>>, info, b.parts, b.cmd, b.err)

NextBld ==
    \/ BldWithPath
    \/ BldWithImage
    \/ BldWithVolume
    \/ BldWithVolumeOpt
    \/ BldWithWorkspace
    \/ BldWithUserMap
    \/ BldWithPort
    \/ BldWithEnvvar
    \/ BldBuild
    \/ BldBuildFrom

SpecBld == InitBld /\ [][NextBld]_vars

(* SpecCtx: one RunContext shared by a module (its stage commands and hooks) *)
(* and by stand-alone runners the caller creates, MaxCtxOps calls at most      *)

InitCtx == \E withCmd \in CommandStages : Constructed(withCmd, <<>>)

\* the stage commands, obtained with GetCmdFor
StageStates == {PreDeploying, Deploying, PostDeploying}

\* a runner the caller creates for one call
FreshRunner == NewPodmanCliCommandBuilder(NoDefaults, <<>>)

\* what a call on a stand-alone runner leaves behind: the module is untouched
CtxCall(name, info, out, r) ==
    /\ ctx' = r.ctx
    /\ ran' = Append(ran, [who |-> name, proc |-> r.proc, err |-> r.err])
    /\ last' = OpOn(name, NilCmd, NoState, info, Seen(r, out), r.err)
    /\ nops' = nops + 1
    /\ UNCHANGED <<module, cmds, current, previous, modCtx, parts, step, pc, nsteps>>

CtxStage ==
    /\ nops < MaxCtxOps
    /\ \E s \in StageStates, out \in Outcomes :
           CallCmd("CmdFor", GetCmdFor(cmds, s), s, out)
    /\ nops' = nops + 1
    /\ UNCHANGED <<step, pc, nsteps>>

CtxHook ==
    /\ nops < MaxCtxOps
    /\ \E name \in Hooks, out \in Outcomes : CallHook(name, out)
    /\ nops' = nops + 1
    /\ UNCHANGED <<step, pc, nsteps>>

CtxRun ==
    /\ nops < MaxCtxOps
    /\ \E out \in Outcomes :
           CtxCall("Run", NoImage, out, Run(FreshRunner, ctx, out, Len(ran) + 1))

CtxRunImage ==
    /\ nops < MaxCtxOps
    /\ \E info \in CliImages, out \in Outcomes :
           CtxCall("RunImage", info, out, RunImage(FreshRunner, ctx, info, out, Len(ran) + 1))

CtxReset ==
    /\ nops < MaxCtxOps
    /\ ctx' = Reset(ctx)
    /\ last' = Op("Reset", NilCmd, NoState, "none", NilErr)
    /\ nops' = nops + 1
    /\ UNCHANGED <<module, cmds, current, previous, modCtx, parts, step, pc, ran, nsteps>>

NextCtx ==
    \/ CtxStage
    \/ CtxHook
    \/ CtxRun
    \/ CtxRunImage
    \/ CtxReset

SpecCtx == InitCtx /\ [][NextCtx]_vars

(* SpecLoad: a ManifestFileLoader loads manifest files and the caller asks   *)
(* the loaded ModuleInfo whether it is supported, MaxLoadOps calls at most   *)

\* the kind fields of the manifests
LoadKinds ==
    {<<"I", "n", "s", "t", "a", "l", "l", "M", "a", "n", "i", "f", "e", "s", "t">>,
     <<"N", "e", "a", "t", "o", "F", "i", "l", "e">>,
     <<"i", "n", "s", "t", "a", "l", "l", "m", "a", "n", "i", "f", "e", "s", "t">>,
     <<>>}

\* the apiVersion fields of the manifests
LoadApiVersions ==
    {<<"i", "t", "z", "c", "l", "i", "/", "v", "1", "a", "l", "p", "h", "a", "1">>,
     <<"i", "t", "z", "c", "l", "i", "/", "v", "1", "b", "e", "t", "a", "1">>,
     <<"i", "t", "z", "i", "n", "a", "t", "o", "r", "/", "v", "1", "a", "l", "p", "h", "a", "1">>,
     <<"i", "t", "z", "c", "l", "i">>,
     <<"i", "t", "z", "c", "l", "i", "/", "v", "1", "a", "l", "p", "h", "a", "1", "/", "x">>,
     <<>>,
     <<"/", "v", "1", "a", "l", "p", "h", "a", "1">>,
     <<"i", "t", "z", "c", "l", "i", "/">>}

\* the files handed to Load: one that cannot be read, one that is not a
\* manifest, and the manifests
LoadFiles ==
    {[readable |-> FALSE, yaml |-> FALSE, content |-> NilModule],
     [readable |-> TRUE, yaml |-> FALSE, content |-> NilModule]}
    \cup {[readable |-> TRUE, yaml |-> TRUE,
           content |-> [ApiVersion |-> a, Kind |-> k, Specifications |-> ModuleInfo("none")]] :
             a \in LoadApiVersions, k \in LoadKinds}

InitLoad ==
    /\ module = NilModule
    /\ last = NoOp
    /\ ctx = NewRunContext
    /\ cmds = [s \in States |-> NilCmd]
    /\ current = None
    /\ previous = NoState
    /\ modCtx = NewRunContext
    /\ parts = ZeroParts
    /\ step = NoStep
    /\ pc = "load"
    /\ ran = <<>>
    /\ nsteps = 0
    /\ nops = 0

\* module, err := moduleLoader.Load(uri): out tells how far the file got, args
\* are the apiVersion and kind fields of a manifest
LoadManifest ==
    /\ nops < MaxLoadOps
    /\ \E file \in LoadFiles :
           \E r \in {Load(file, nops + 1)} :
               /\ module' = r.module
               /\ last' = [Op("Load", NilCmd, NoState,
                              IF ~file.readable THEN "unreadable"
                              ELSE IF ~file.yaml THEN "unparsed" ELSE "parsed", r.err)
                              EXCEPT !.args = IF file.yaml
                                              THEN <<file.content.ApiVersion, file.content.Kind>>
                                              ELSE <<>>]
    /\ nops' = nops + 1
    /\ UNCHANGED <<cmds, current, previous, modCtx, parts, ctx, step, pc, ran, nsteps>>

\* a question asked of the loaded ModuleInfo: res is the value returned
LoadAsk(name, answer) ==
    /\ nops < MaxLoadOps
    /\ module # NilModule
    /\ last' = [Op(name, NilCmd, NoState, "none", NilErr) EXCEPT !.res = <<answer>>]
    /\ nops' = nops + 1
    /\ UNCHANGED <<module, cmds, current, previous, modCtx, parts, ctx, step, pc, ran, nsteps>>

LoadIsSupportedKind == LoadAsk("IsSupportedKind", IsSupportedKind(module))

LoadIsSupportedVersion == LoadAsk("IsSupportedVersion", IsSupportedVersion(module))

LoadIsSupported == LoadAsk("IsSupported", IsSupported(module))

NextLoad ==
    \/ LoadManifest
    \/ LoadIsSupportedKind
    \/ LoadIsSupportedVersion
    \/ LoadIsSupported

SpecLoad == InitLoad /\ [][NextLoad]_vars

-----------------------------------------------------------------------------
(* Properties *)

StageNames == <<"pre_deploy", "deploy", "post_deploy">>

IsStageRun(e) == e.who \in {"pre_deploy", "deploy", "post_deploy"}

\* the stage invocations so far, in order
StageRuns == SelectSeq(ran, IsStageRun)

\* no stage invocation has returned an error
NoStageFailed == \A i \in 1..Len(StageRuns) : StageRuns[i].err = NilErr

Terminal == {Done, Errored}

\* C1: driven through the iterator from a fresh module with every stage image
\* succeeding, each step moves the current state one position along the default
\* order, so the loop ends within len(DefaultOrder) steps, and it ends with all
\* three stages run, the current state done and IsErrored() false
C1_HappyPathEndsDone ==
    NoStageFailed
        => /\ nsteps < Len(DefaultOrder)
           /\ current = DefaultOrder[nsteps + 1]
           /\ pc = "end" => /\ Len(StageRuns) = 3
                            /\ current = Done
                            /\ ~IsErrored(current)

C1_Witness ==
    /\ pc = "end"
    /\ NoStageFailed
    /\ Len(StageRuns) = 3
    /\ current = Done
    /\ ~IsErrored(current)

\* C2: a stage handler whose process exits non-zero leaves the current state
\* errored, IsErrored() true, and exactly one more error in the run context it
\* was passed, the errors recorded before being kept
C2_StageFailureErrors ==
    (last.op \in {"Step", "CmdFor"} /\ RunsImage(last.cmd) /\ last.out = "exit")
        => /\ current = Errored
           /\ IsErrored(current)
           /\ Len(ctx.Errors) = Len(last.ctx.Errors) + 1
           /\ SubSeq(ctx.Errors, 1, Len(last.ctx.Errors)) = last.ctx.Errors
           /\ ctx.Errors[Len(ctx.Errors)] = last.err

C2_Witness ==
    /\ last.op = "CmdFor"
    /\ last.cmd = DeployCmd
    /\ last.out = "exit"
    /\ Len(last.ctx.Errors) = 1
    /\ Len(ctx.Errors) = 2
    /\ current = Errored

\* C3: driven through the iterator, the stages are invoked in the order
\* pre_deploy, deploy, post_deploy, each at most once, and a stage is invoked
\* only if every stage before it was invoked and returned no error
C3_StagesInOrder ==
    /\ Len(StageRuns) <= 3
    /\ \A i \in 1..Len(StageRuns) :
           /\ StageRuns[i].who = StageNames[i]
           /\ i < Len(StageRuns) => /\ StageRuns[i].err = NilErr
                                    /\ StageRuns[i].proc # <<>>
                                    /\ StageRuns[i].proc[1].out = "ok"

C3_Witness ==
    /\ Len(StageRuns) = 2
    /\ StageRuns[2].who = "deploy"
    /\ StageRuns[2].err # NilErr
    /\ pc = "end"
    /\ current = Errored

\* the handler NewDeployableModule registers for a state
RegisteredFor(state) ==
    LET i == CHOOSE k \in 1..Len(Registrations) : Registrations[k][1] = state
    IN  Registrations[i][2]

\* C4: requesting the next step yields (DoneHandler, false) when the current
\* state is done or errored, and in every other state of the default order the
\* handler registered for the current state, with more = true
C4_NextYieldsCurrentHandler ==
    last.op = "Next"
        => /\ current \in Terminal => step.cmd = DoneHandler /\ ~step.more
           /\ current \notin Terminal =>
                  /\ step.more
                  /\ step.cmd = RegisteredFor(current)
                  /\ step.cmd = GetCmdFor(cmds, current)

C4_Witness ==
    /\ last.op = "Next"
    /\ current = Deploying
    /\ step.cmd = DeployCmd
    /\ step.more

\* C5 as stated: once the current state is done or errored, no handler the
\* iterator or GetCmdFor returned changes the current state when invoked
C5_Original ==
    (last.op \in {"Step", "CmdFor"} /\ last.current \in Terminal)
        => current = last.current

\* C5 as amended: once the current state is done or errored the iterator yields
\* (DoneHandler, false), and invoking DoneHandler changes neither the current
\* nor the previous state
C5_TerminalStepIsNoop ==
    /\ (last.op = "Next" /\ current \in Terminal) => step.cmd = DoneHandler /\ ~step.more
    /\ (last.op \in {"Step", "CmdFor"} /\ last.cmd = DoneHandler)
           => current = last.current /\ previous = last.previous

C5_Witness ==
    /\ last.op = "Step"
    /\ last.cmd = DoneHandler
    /\ ~step.more
    /\ last.current = Errored
    /\ current = Errored

\* the success successor of the transition table
Successor(state) ==
    CASE state = Invalid -> Initializing
      [] state = Initializing -> Configured
      [] state = Configured -> Validated
      [] state = Validated -> PreDeploying
      [] state = PreDeploying -> PreDeployed
      [] state = PreDeployed -> Deploying
      [] state = Deploying -> Deployed
      [] state = Deployed -> PostDeploying
      [] state = PostDeploying -> PostDeployed

\* C6: in a non-terminal state S, invoking the handler the iterator yields in S,
\* with no failing run, leaves the current state at the success successor of S
\* and S as the previous state
C6_StepReachesSuccessor ==
    (last.op = "Step" /\ last.current \notin Terminal /\ last.err = NilErr)
        => current = Successor(last.current)

C6_Witness ==
    /\ last.op = "Step"
    /\ last.current = PostDeploying
    /\ last.err = NilErr
    /\ current = PostDeployed
    /\ current = Done

\* C7 as stated: an all-success run reaches done after len(DefaultOrder) steps
C7_Original ==
    (current = Done /\ NoStageFailed) => nsteps = Len(DefaultOrder)

\* C7 as amended: the state is done after exactly len(DefaultOrder) - 2 handlers
\* yielded with more = true have been invoked, and not before
C7_StepsToDone ==
    /\ current = Done => nsteps = Len(DefaultOrder) - 2
    /\ nsteps < Len(DefaultOrder) - 2 => current # Done

C7_Witness ==
    /\ current = Done
    /\ NoStageFailed
    /\ pc = "end"
    /\ nsteps = Len(DefaultOrder) - 2

\* C8: a hook, whether its process succeeds or fails, and wherever in the
\* lifecycle it is invoked, leaves the current and the previous state as they
\* were; before the first step that is invalid
C8_HookKeepsState ==
    last.op = "Hook"
        => /\ current = last.current
           /\ previous = last.previous
           /\ nsteps = 0 => current = Invalid

C8_Witness ==
    /\ last.op = "Hook"
    /\ last.err # NilErr
    /\ current = Errored
    /\ previous = Deploying

\* C9: AddCmd for a state that has a handler returns the already-exists error
\* and changes no registration: GetCmdFor still returns the first handler
C9_AddCmdKeepsFirst ==
    (last.op = "AddCmd" /\ GetCmdFor(last.cmds, last.arg) # NilCmd)
        => /\ last.err = ErrExists(last.arg)
           /\ last.err # NilErr
           /\ GetCmdFor(cmds, last.arg) = GetCmdFor(last.cmds, last.arg)
           /\ cmds = last.cmds

C9_Witness ==
    /\ last.op = "AddCmd"
    /\ last.arg = Errored
    /\ last.err # NilErr
    /\ last.cmd = AdvanceToCmd(Invalid)
    /\ GetCmdFor(cmds, Errored) = DoneHandler

\* whether a call of Run or RunImage met a failure: the build was refused, the
\* process could not be started, or it exited non-zero
MetFailure == last.out \in {"spawn", "exit"} \/ Len(last.info.Command) > 0

\* C10: Run and RunImage return an error exactly when they record one: on every
\* failure the error returned is non-nil and is the last element of the error
\* list, one longer than before; without a failure nil is returned and the list
\* is as before
C10_DualPropagation ==
    last.op \in {"Run", "RunImage"}
        => /\ MetFailure <=> last.err # NilErr
           /\ last.err # NilErr
                  => /\ ctx.Errors = Append(last.ctx.Errors, last.err)
                     /\ ctx.Errors[Len(ctx.Errors)] = last.err
           /\ last.err = NilErr => ctx.Errors = last.ctx.Errors

C10_Witness ==
    /\ last.op = "Run"
    /\ last.out = "spawn"
    /\ Len(last.ctx.Errors) = 2
    /\ Len(ctx.Errors) = 3
    /\ ctx.Errors[3] = last.err

\* C11 as stated: the exit-code field is reset before every runner invocation,
\* so after any call of Run or RunImage whose process succeeded it is 0
C11_Original ==
    (last.op \in {"Run", "RunImage"} /\ last.out = "ok") => ctx.LastErrCode = 0

\* whether s is an initial part of t
IsPrefix(s, t) == Len(s) <= Len(t) /\ SubSeq(t, 1, Len(s)) = s

\* C12: over any sequence of Run, RunImage, Reset, stage-command and hook
\* invocations on one RunContext, every step leaves the error list as it was or
\* longer, with the entries already recorded in place
C12_ErrorsAppendOnly == [][IsPrefix(ctx.Errors, ctx.Errors')]_vars

C12_Witness ==
    /\ last.op = "Reset"
    /\ Len(last.ctx.Errors) = 1
    /\ ctx.Errors = last.ctx.Errors
    /\ last.ctx.LastErrCode # 0
    /\ ctx.LastErrCode = 0

\* each element of xs preceded by the option that introduces it
Options(opt, xs) == [i \in 1..(2 * Len(xs)) |-> IF i % 2 = 1 THEN opt ELSE xs[i \div 2]]

\* the tokens of a command line, in the order the claim gives them
Tokens(p) ==
    <<p.Path, p.Cmd>>
    \o p.Flags
    \o Options(<<"-", "-", "u", "i", "d", "m", "a", "p">>, p.UidMaps)
    \o Options(<<"-", "v">>, p.VolumeMaps)
    \o Options(<<"-", "p">>, PortStrings(SortedPorts(p.Ports)))
    \o Options(<<"-", "e">>, EnvVarStrings(p.Envvars))
    \o (IF p.Image # <<>> THEN <<p.Image>> ELSE <<>>)

\* C13: the string Build returns, cut at its single spaces, is the token list
\* path, subcommand, flags, '--uidmap X' per UID map, '-v X' per volume map,
\* '-p host:container' per port, '-e NAME=VALUE' per variable, and the image only
\* if it is non-empty; it neither starts nor ends with whitespace
C13_BuildTokenOrder ==
    (last.op \in {"Build", "BuildFrom"} /\ last.err = NilErr)
        => /\ Split(last.res) = Tokens(parts)
           /\ last.res # <<>>
           /\ ~IsSpace(last.res[1])
           /\ ~IsSpace(last.res[Len(last.res)])

C13_Witness ==
    /\ last.op = "BuildFrom"
    /\ last.err = NilErr
    /\ Len(parts.Flags) = 2
    /\ Len(parts.UidMaps) = 1
    /\ Len(parts.VolumeMaps) = 1
    /\ Cardinality(parts.Ports) = 2
    /\ Len(parts.Envvars) = 2
    /\ parts.Image # <<>>
    /\ Len(Split(last.res)) = 17

\* C14: BuildFrom returns the error 'command is not yet supported' and the empty
\* string whenever the descriptor's command list is non-empty, whatever its
\* other fields, and returns no error and a command line whenever it is empty
C14_BuildFromRefusesCommand ==
    last.op = "BuildFrom"
        => /\ Len(last.info.Command) > 0
                  => /\ last.err.kind = "command is not yet supported"
                     /\ last.res = <<>>
           /\ Len(last.info.Command) = 0
                  => /\ last.err = NilErr
                     /\ last.res # <<>>

C14_Witness ==
    /\ last.op = "BuildFrom"
    /\ Len(last.info.Command) > 0
    /\ last.info.Image # <<>>
    /\ last.info.EnvVars # <<>>
    /\ last.err.kind = "command is not yet supported"
    /\ last.res = <<>>
    /\ Len(parts.VolumeMaps) = 1

\* the descriptor a stage runs
StageDescriptor(who) ==
    CASE who = "pre_deploy" -> module.PreDeploy
      [] who = "deploy" -> module.Deploy
      [] who = "post_deploy" -> module.PostDeploy

\* C15: driven through the iterator, a stage whose descriptor has a command
\* returns 'command is not yet supported' without spawning a process, leaves the
\* lifecycle errored with IsErrored() true, and is the last stage that is run
C15_CommandStageErrors ==
    \A i \in 1..Len(StageRuns) :
        Len(StageDescriptor(StageRuns[i].who).Command) > 0
            => /\ StageRuns[i].err.kind = "command is not yet supported"
               /\ StageRuns[i].proc = <<>>
               /\ i = Len(StageRuns)
               /\ current = Errored
               /\ IsErrored(current)

C15_Witness ==
    /\ pc = "end"
    /\ Len(StageRuns) = 2
    /\ StageRuns[2].who = "deploy"
    /\ Len(module.Deploy.Command) > 0
    /\ StageRuns[2].proc = <<>>
    /\ StageRuns[2].err.kind = "command is not yet supported"
    /\ current = Errored

\* 'name:mountPath' for each volume of a descriptor
VolumeStrings(vols) ==
    [i \in 1..Len(vols) |-> vols[i].Name \o <<":">> \o vols[i].MountPath]

\* the command line the claim gives for a descriptor run on a fresh module
FreshCommandLine(path, info) ==
    <<path, <<"r", "u", "n">>>>
    \o Options(<<"-", "v">>, VolumeStrings(info.Volumes))
    \o Options(<<"-", "e">>, EnvVarStrings(info.EnvVars))
    \o <<info.Image>>

\* C16: when the first invocation of a fresh module's runner is a stage, the
\* process it spawns is exactly '<runtime path> run', '-v name:mountPath' per
\* volume and '-e NAME=VALUE' per variable of the stage's descriptor, and the
\* descriptor's image
C16_FirstStageCommandLine ==
    (Len(ran) >= 1 /\ IsStageRun(ran[1]) /\ ran[1].proc # <<>>)
        => /\ parts.Path \in {DefaultPodmanPath} \cup (EnvPaths \ {<<>>})
           /\ ran[1].proc[1].argv = FreshCommandLine(parts.Path, StageDescriptor(ran[1].who))
           /\ Split(ran[1].proc[1].cmd) = ran[1].proc[1].argv

C16_Witness ==
    /\ Len(ran) = 1
    /\ ran[1].who = "pre_deploy"
    /\ ran[1].proc # <<>>
    /\ Len(ran[1].proc[1].argv) = 7
    /\ parts.Path # DefaultPodmanPath

\* the values that follow the option opt in an argument list
OptionValues(opt, argv) ==
    LET at == SelectSeq([i \in 1..Len(argv) |-> i], LAMBDA i : i < Len(argv) /\ argv[i] = opt)
    IN  [k \in 1..Len(at) |-> argv[at[k] + 1]]

\* the values that follow a '-v' in an argument list
MountsOf(argv) == OptionValues(<<"-", "v">>, argv)

\* whether a volume mapping mounts some directory on the builder's workspace path
IsWorkspaceMount(m, workdir) ==
    /\ Len(m) > Len(workdir) + 1
    /\ SubSeq(m, Len(m) - Len(workdir), Len(m)) = <<":">> \o workdir

\* the descriptor an invocation of the module's runner ran
RanDescriptor(who) ==
    IF who \in Hooks THEN HookImage(module, who) ELSE StageDescriptor(who)

\* C17 as stated: the module's builder holds a mapping of the execution
\* directory to the workspace path, and every stage and hook command line has it
C17_Original ==
    /\ \E i \in 1..Len(parts.VolumeMaps) : IsWorkspaceMount(parts.VolumeMaps[i], parts.Workdir)
    /\ \A k \in 1..Len(ran) :
           ran[k].proc # <<>>
               => \E i \in 1..Len(MountsOf(ran[k].proc[1].argv)) :
                      IsWorkspaceMount(MountsOf(ran[k].proc[1].argv)[i], parts.Workdir)

\* C17 as amended: the module's builder is the one the constructor makes from
\* no defaults, with no volume mapping, and every mount on a stage or hook
\* command line is a volume of the descriptor run or of one run before it
C17_NoWorkspaceSeed ==
    /\ Len(ran) = 0 => parts.VolumeMaps = <<>>
    /\ parts.Workdir = DefaultWorkdir
    /\ \A k \in 1..Len(ran) :
           ran[k].proc # <<>>
               => \A i \in 1..Len(MountsOf(ran[k].proc[1].argv)) :
                      \E j \in 1..k :
                          \E v \in 1..Len(RanDescriptor(ran[j].who).Volumes) :
                              MountsOf(ran[k].proc[1].argv)[i]
                                  = VolumeStrings(RanDescriptor(ran[j].who).Volumes)[v]

C17_Witness ==
    /\ Len(ran) = 2
    /\ ran[1].who = "list"
    /\ ran[1].proc # <<>>
    /\ MountsOf(ran[1].proc[1].argv) = <<>>
    /\ ran[2].who = "pre_deploy"
    /\ ran[2].proc # <<>>
    /\ Len(MountsOf(ran[2].proc[1].argv)) = 1

\* empty or whitespace only
IsBlank(s) == \A i \in 1..Len(s) : IsSpace(s[i])

\* the field the constructor resolves: the supplied value if a defaults structure
\* is supplied and the value is set, otherwise the fallback
Resolved(supplied, fallback) ==
    IF last.cli # NoDefaults /\ ~IsBlank(supplied) THEN supplied ELSE fallback

\* the runtime path when none is supplied: the environment override if no
\* defaults structure is supplied at all and the override is set
FallbackPath ==
    IF last.cli = NoDefaults /\ ~IsBlank(last.env)
    THEN last.env
    ELSE <<"/", "u", "s", "r", "/", "l", "o", "c", "a", "l", "/", "b", "i", "n", "/",
           "p", "o", "d", "m", "a", "n">>

\* the defaults structure, or the empty one when none is supplied
SuppliedParts == IF last.cli = NoDefaults THEN ZeroParts ELSE last.cli

\* C18: the constructor resolves the path to the supplied path if set, else to
\* ITZ_PODMAN_PATH if no defaults structure is supplied and it is set, else to
\* /usr/local/bin/podman; the subcommand to the supplied one or 'run'; the
\* workspace path to the supplied one or '/workspace'; and the volume, port and
\* UID-map collections are empty
C18_ConstructorDefaults ==
    last.op = "New"
        => /\ parts.Path = Resolved(SuppliedParts.Path, FallbackPath)
           /\ parts.Cmd = Resolved(SuppliedParts.Cmd, <<"r", "u", "n">>)
           /\ parts.Workdir
                  = Resolved(SuppliedParts.Workdir, <<"/", "w", "o", "r", "k", "s", "p", "a", "c", "e">>)
           /\ parts.VolumeMaps = <<>>
           /\ parts.Ports = {}
           /\ parts.UidMaps = <<>>

C18_Witness ==
    /\ last.op = "New"
    /\ last.cli # NoDefaults
    /\ IsBlank(last.cli.Path)
    /\ ~IsBlank(last.env)
    /\ parts.Path = DefaultPodmanPath
    /\ parts.Cmd = DefaultCmd
    /\ parts.Workdir = <<"/", "w", "s">>

\* the flags the builder has of its own, before any are supplied: none
InheritedFlags == <<>>

PortTokens(p) == OptionValues(<<"-", "p">>, Split(Build(p)))

\* whether a port token is for the host port h
HasHost(t, h) == Len(t) > Len(h) /\ SubSeq(t, 1, Len(h) + 1) = h \o <<":">>

\* the port tokens of p that are not for the host port h
OtherPorts(p, h) == SelectSeq(PortTokens(p), LAMBDA t : ~HasHost(t, h))

\* C20: after WithPort(host, container), Build renders exactly one '-p' value
\* for that host port, carrying this call's container port, and the values for
\* the other host ports are as before the call; so after any sequence of calls
\* each distinct host port has one value, that of the last call for it
C20_LastPortWins ==
    last.op = "WithPort"
        => /\ SelectSeq(PortTokens(parts), LAMBDA t : HasHost(t, last.args[1]))
                  = <<last.args[1] \o <<":">> \o last.args[2]>>
           /\ OtherPorts(parts, last.args[1]) = OtherPorts(last.parts, last.args[1])
           /\ Len(PortTokens(parts)) = Cardinality({pr[1] : pr \in parts.Ports})

C20_Witness ==
    /\ last.op = "WithPort"
    /\ last.args = <<<<"8", "0">>, <<"9", "0">>>>
    /\ PortTokens(last.parts) = <<<<"4", "4", "3", ":", "8", "0", "8", "0">>,
                                  <<"8", "0", ":", "8", "0", "8", "0">>>>
    /\ PortTokens(parts) = <<<<"4", "4", "3", ":", "8", "0", "8", "0">>,
                             <<"8", "0", ":", "9", "0">>>>

\* the 'NAME=VALUE' values Build renders after '-e' for the parts p
EnvTokens(p) == OptionValues(<<"-", "e">>, Split(Build(p)))

\* C21: Build renders the variables inherited from the constructor's defaults
\* first, then one '-e NAME=VALUE' per WithEnvvar call in call order: each call
\* adds its pair at the end, a repeated name included, and leaves the values
\* rendered before it as they were; the other setters and Build change none
C21_EnvvarsInCallOrder ==
    \E now \in {EnvTokens(parts)} :
        /\ IsPrefix(EnvVarStrings(SuppliedParts.Envvars), now)
        /\ last.op = "New" => now = EnvVarStrings(SuppliedParts.Envvars)
        /\ last.op = "WithEnvvar"
               => now = Append(EnvTokens(last.parts), last.args[1] \o <<"=">> \o last.args[2])
        /\ last.op \notin {"New", "WithEnvvar", "BuildFrom"} => now = EnvTokens(last.parts)

C21_Witness ==
    /\ last.op = "Build"
    /\ EnvTokens(parts) = <<<<"B", "=", "y">>, <<"A", "=", "x">>, <<"A", "=", "z">>,
                            <<"A", "=", "x">>>>
    /\ OptionValues(<<"-", "e">>, Split(last.res)) = EnvTokens(parts)

\* the values Build renders after '--uidmap' for the parts p
UidMapTokens(p) == OptionValues(<<"-", "-", "u", "i", "d", "m", "a", "p">>, Split(Build(p)))

\* C22: WithUserMap(localUser, containerUser, count) adds the value
\* 'containerUser:localUser:count' after the '--uidmap' values rendered before
\* the call, which stay as they were; no other call changes the '--uidmap'
\* values, so Build renders one per WithUserMap call, in call order
C22_UidMapsInCallOrder ==
    \E now \in {UidMapTokens(parts)} :
        /\ last.op = "New" => now = <<>>
        /\ last.op = "WithUserMap"
               => now = Append(UidMapTokens(last.parts),
                               last.args[2] \o <<":">> \o last.args[1] \o <<":">> \o last.args[3])
        /\ last.op \notin {"New", "WithUserMap"} => now = UidMapTokens(last.parts)

C22_Witness ==
    /\ last.op = "WithUserMap"
    /\ last.args = <<<<"1">>, <<"0">>, <<"1", "0", "0", "0">>>>
    /\ UidMapTokens(parts) = <<<<"1", "0", "0", "0", ":", "0", ":", "1">>,
                               <<"0", ":", "1", ":", "1", "0", "0", "0">>>>

\* the values Build renders after '-v' for the parts p
VolumeTokens(p) == MountsOf(Split(Build(p)))

\* the value the claim gives for a mapping: 'host:container', and
\* 'host:container:option' when an option is given
VolumeToken(host, container, option) ==
    IF option = <<>>
    THEN host \o <<":">> \o container
    ELSE host \o <<":">> \o container \o <<":">> \o option

\* C23: WithVolumeOpt adds 'host:container:option', or 'host:container' when the
\* option is empty; WithVolume adds 'host:container' and never the default
\* option; WithWorkspace(dir) does what WithVolume(dir, workspace path) does;
\* each adds its value after the '-v' values rendered before, BuildFrom adds
\* those of its descriptor in order, no value ends with a colon, and no other
\* call changes them
C23_VolumesInCallOrder ==
    \E now \in {VolumeTokens(parts)} :
        /\ \A i \in 1..Len(now) : now[i][Len(now[i])] # ":"
        /\ last.op = "New" => now = <<>>
        /\ last.op = "WithVolumeOpt"
               => now = Append(VolumeTokens(last.parts),
                               VolumeToken(last.args[1], last.args[2], last.args[3]))
        /\ last.op = "WithVolume"
               => now = Append(VolumeTokens(last.parts),
                               VolumeToken(last.args[1], last.args[2], <<>>))
        /\ last.op = "WithWorkspace"
               => /\ now = Append(VolumeTokens(last.parts),
                                  VolumeToken(last.args[1], last.parts.Workdir, <<>>))
                  /\ parts = WithVolume(last.parts, last.args[1], last.parts.Workdir)
        /\ (last.op = "BuildFrom" /\ last.err = NilErr)
               => now = VolumeTokens(last.parts) \o VolumeStrings(last.info.Volumes)
        /\ last.op \notin {"New", "WithVolumeOpt", "WithVolume", "WithWorkspace", "BuildFrom"}
               => now = VolumeTokens(last.parts)

C23_Witness ==
    /\ last.op = "WithVolume"
    /\ parts.DefaultVolumeOpt = <<"Z">>
    /\ VolumeTokens(parts) = <<<<"/", "h", ":", "/", "w", "s">>,
                               <<"/", "t", ":", "/", "w", ":", "Z">>,
                               <<"/", "t", ":", "/", "w">>>>

\* the string the last call of Build or Run rendered: Build returns it, Run
\* hands it to the process it spawns
Rendered == IF last.op = "Build" THEN last.res ELSE ran[Len(ran)].proc[1].cmd

\* C24: a call of Build, also the one Run makes, leaves the builder's parts as
\* they were, and a call of Build or Run that directly follows another renders
\* the same string again
C24_BuildRepeatable ==
    [][last'.op \in {"Build", "Run"}
           => /\ parts' = parts
              /\ last.op \in {"Build", "Run"} => Rendered' = Rendered]_vars

C24_Witness ==
    /\ nops = 3
    /\ last.op = "Build"
    /\ Len(ran) = 2
    /\ ran[2].who = "Run"
    /\ ran[2].proc[1].out = "exit"
    /\ parts.Image # <<>>
    /\ parts.Envvars # <<>>
    /\ last.res = ran[2].proc[1].cmd

\* C25: requesting the next step, IsErrored() and State() leave the current
\* state, the previous state, the run context, the module's copy of it, the
\* handlers and the builder as they were; a request for the next step that
\* directly follows another, no handler invoked in between, returns the same
\* (handler, more) pair; IsErrored() returns true exactly when the current state
\* is errored, and State() returns the current state
C25_NextIsDecoupled ==
    [][/\ last'.op \in {"Next", "IsErrored", "State"}
           => /\ current' = current
              /\ previous' = previous
              /\ ctx' = ctx
              /\ modCtx' = modCtx
              /\ cmds' = cmds
              /\ parts' = parts
       /\ (last.op = "Next" /\ last'.op = "Next") => step' = step
       /\ last'.op = "IsErrored" => last'.res = <<current = "errored">>
       /\ last'.op = "State" => last'.res = <<current>>]_vars

C25_Witness ==
    /\ nops = 3
    /\ last.op = "Next"
    /\ last.current = Initializing
    /\ current = Initializing
    /\ previous = Invalid
    /\ step = [cmd |-> ResolveStateCmd, more |-> TRUE, panic |-> FALSE]

\* the one apiVersion the claim accepts: namespace 'itzcli' and version
\* 'v1alpha1', and nothing else, separated by one '/'
AcceptedApiVersion == <<"i", "t", "z", "c", "l", "i", "/", "v", "1", "a", "l", "p", "h", "a", "1">>

\* the one kind the claim accepts
AcceptedKind == <<"I", "n", "s", "t", "a", "l", "l", "M", "a", "n", "i", "f", "e", "s", "t">>

\* C26: whenever the file parses, Load returns the descriptor with the
\* document's fields, and the error it returns is non-nil exactly when the kind
\* is not 'InstallManifest' or the apiVersion is not 'itzcli/v1alpha1';
\* IsSupportedKind() and IsSupportedVersion() answer those two questions, and
\* IsSupported() is true exactly when both are
C26_LoadFlagsUnsupported ==
    /\ (last.op = "Load" /\ last.out = "parsed")
           => /\ module # NilModule
              /\ module.ApiVersion = last.args[1]
              /\ module.Kind = last.args[2]
              /\ last.err # NilErr
                     <=> ~(last.args[2] = AcceptedKind /\ last.args[1] = AcceptedApiVersion)
    /\ last.op = "IsSupportedKind" => last.res = <<module.Kind = AcceptedKind>>
    /\ last.op = "IsSupportedVersion" => last.res = <<module.ApiVersion = AcceptedApiVersion>>
    /\ last.op = "IsSupported"
           => /\ last.res = <<module.Kind = AcceptedKind /\ module.ApiVersion = AcceptedApiVersion>>
              /\ last.res = <<IsSupportedKind(module) /\ IsSupportedVersion(module)>>

C26_Witness ==
    /\ last.op = "Load"
    /\ last.out = "parsed"
    /\ last.args[2] = AcceptedKind
    /\ Len(SplitOn(last.args[1], "/")) = 3
    /\ SubSeq(last.args[1], 1, Len(AcceptedApiVersion)) = AcceptedApiVersion
    /\ last.err # NilErr
    /\ module # NilModule
    /\ module.ApiVersion = last.args[1]

\* C27 as stated: the command line of every stage and hook invocation on a
\* module, not only of the first, has exactly the '-e' values and the '-v'
\* values of the descriptor that invocation runs, and none of an earlier one
C27_Original ==
    \A k \in 1..Len(ran) :
        ran[k].proc # <<>>
            => /\ OptionValues(<<"-", "e">>, ran[k].proc[1].argv)
                      = EnvVarStrings(RanDescriptor(ran[k].who).EnvVars)
               /\ MountsOf(ran[k].proc[1].argv)
                      = VolumeStrings(RanDescriptor(ran[k].who).Volumes)

\* the invocations that ran the image of the stage s
RunsOfStage(s) == {i \in 1..Len(ran) : ran[i].who = s}

\* the processes spawned with the image of the stage s as their last argument
ProcessesOfStage(s) ==
    {i \in 1..Len(ran) :
        /\ ran[i].proc # <<>>
        /\ ran[i].proc[1].argv[Len(ran[i].proc[1].argv)] = StageDescriptor(s).Image}

\* C28: driven through the iterator by one caller, each of the three stages is
\* invoked at most once and its image is run by at most one process; and
\* whenever the caller holds control, in particular when it obtains the next
\* handler, every process a stage spawned has exited (or could not be started):
\* none is still running, so no two stage invocations overlap
C28_StagesOnceNoOverlap ==
    /\ \A s \in {"pre_deploy", "deploy", "post_deploy"} :
           /\ Cardinality(RunsOfStage(s)) <= 1
           /\ Cardinality(ProcessesOfStage(s)) <= 1
    /\ \A i \in 1..Len(ran) :
           (IsStageRun(ran[i]) /\ ran[i].proc # <<>>)
               => ran[i].proc[1].out \in {"ok", "exit", "spawn"}

C28_Witness ==
    /\ pc = "end"
    /\ current = Done
    /\ Len(ran) = 4
    /\ Len(StageRuns) = 3
    /\ \A s \in {"pre_deploy", "deploy", "post_deploy"} :
           Cardinality(RunsOfStage(s)) = 1 /\ Cardinality(ProcessesOfStage(s)) = 1
    /\ \A i \in 1..Len(StageRuns) : StageRuns[i].proc[1].out = "ok"

\* the context runCmd is handed by the last call: Run resets it first, RunImage
\* passes it on as it is
Handed == IF last.op = "Run" THEN Reset(last.ctx) ELSE last.ctx

\* C29: when the process cannot be started, Run and RunImage return the error
\* and append it to the error list, and the exit-code field stays as runCmd was
\* handed it (as the caller left it for RunImage, 0 after the reset Run makes);
\* runCmd writes the field only when the process ran and exited non-zero, and
\* then with its exit code
C29_SpawnFailureKeepsCode ==
    last.op \in {"Run", "RunImage"}
        => /\ last.out = "spawn"
                  => /\ last.err # NilErr
                     /\ ~IsExitError(last.err)
                     /\ ctx.Errors = Append(last.ctx.Errors, last.err)
                     /\ ctx.LastErrCode = Handed.LastErrCode
                     /\ last.op = "RunImage" => ctx.LastErrCode = last.ctx.LastErrCode
           /\ ctx.LastErrCode # Handed.LastErrCode
                  => /\ last.out = "exit"
                     /\ ctx.LastErrCode = last.err.code
           /\ last.out = "exit" => ctx.LastErrCode = last.err.code /\ last.err.code # 0

C29_Witness ==
    /\ last.op = "RunImage"
    /\ last.out = "spawn"
    /\ last.ctx.LastErrCode = 2
    /\ ctx.LastErrCode = 2
    /\ Len(ctx.Errors) = 2
    /\ ctx.Errors[2] = last.err
    /\ ctx.Errors[1].kind = "exit"

\* whether none of the tokens has a space in it
NoSpaces(ts) == \A i \in 1..Len(ts) : \A j \in 1..Len(ts[i]) : ts[i][j] # SP

\* the argument vector of the process the last call spawned, executable first
LastArgv == ran[Len(ran)].proc[1].argv

\* C30: when none of the tokens Build renders has a space in it, the process Run
\* or RunImage spawns has the first token, the runtime path, as its executable
\* and the remaining tokens, in order, as its arguments, none of them empty
C30_ArgvIsTokens ==
    (last.op \in {"Run", "RunImage"} /\ last.out # "none" /\ NoSpaces(Tokens(parts)))
        => /\ LastArgv[1] = parts.Path
           /\ Tail(LastArgv) = Tail(Tokens(parts))
           /\ \A i \in 1..Len(LastArgv) : LastArgv[i] # <<>>
           /\ NoSpaces(LastArgv)

C30_Witness ==
    /\ last.op = "RunImage"
    /\ last.out = "ok"
    /\ Len(parts.Flags) = 1
    /\ Len(parts.Envvars) = 2
    /\ Len(parts.VolumeMaps) = 1
    /\ NoSpaces(Tokens(parts))
    /\ Len(LastArgv) = 10
    /\ LastArgv[1] = <<"/", "b", "i", "n", "/", "l", "s">>
    /\ LastArgv[10] = <<"e", "n", "v">>

\* the position of a state in the default order
Position(state) == FirstIndex(DefaultOrder, state)

\* C31: driven through the iterator from invalid, every handler yielded with
\* more = true leaves the current state errored or at a strictly later position
\* of the default order than it was; a state that is neither done nor errored is
\* at the position one past the number of such handlers invoked, so at most 9
\* of them are invoked and after the ninth the state is done or errored,
\* whatever the stage runs returned
C31_StepsMakeProgress ==
    /\ (last.op = "Step" /\ step.more)
           => \/ current = Errored
              \/ Position(current) > Position(last.current)
    /\ current \notin Terminal => Position(current) = nsteps + 1
    /\ nsteps <= 9
    /\ nsteps = 9 => current \in Terminal
    /\ pc = "end" => current \in Terminal

C31_Witness ==
    /\ pc = "end"
    /\ nsteps = 9
    /\ last.op = "Step"
    /\ last.current = Errored
    /\ current = Errored
    /\ previous = PostDeploying
    /\ Len(StageRuns) = 3
    /\ StageRuns[3].proc[1].out = "spawn"

\* the states that occur in the default order
OrderStates == {DefaultOrder[i] : i \in 1..Len(DefaultOrder)}

\* C32: driven through the iterator, with hooks in between, the current state
\* is always one of the ten states of the default order or errored, never
\* 'none', and whenever it is neither done nor errored a handler is registered
\* for it
C32_CurrentIsRegistered ==
    /\ Cardinality(OrderStates) = 10
    /\ current \in OrderStates \cup {Errored}
    /\ current # None
    /\ current \notin Terminal => GetCmdFor(cmds, current) # NilCmd

C32_Witness ==
    /\ last.op = "Hook"
    /\ last.err # NilErr
    /\ current = Deployed
    /\ GetCmdFor(cmds, current) = AdvanceToCmd(PostDeploying)
    /\ nsteps = 7

\* the in-progress state of a stage
InProgress(who) ==
    CASE who = "pre_deploy" -> PreDeploying
      [] who = "deploy" -> Deploying
      [] who = "post_deploy" -> PostDeploying

\* C33: a handler that notifies one state (advanceTo, resolveState) leaves the
\* state that was current as the previous one and the notified state as the
\* current one; a stage handler, which notifies its in-progress state and then
\* its outcome, leaves the in-progress state as the previous one; so whenever
\* the lifecycle driven through the iterator is errored, the previous state is
\* the in-progress state of the stage that failed, the last one run
C33_PreviousIsPredecessor ==
    /\ (last.op = "Step" /\ last.cmd.fn = "advanceTo")
           => previous = last.current /\ current = last.cmd.to
    /\ (last.op = "Step" /\ last.cmd.fn = "resolveState")
           => previous = last.current /\ current = Configured
    /\ (last.op = "Step" /\ RunsImage(last.cmd))
           => /\ previous = InProgress(StageOf(last.cmd))
              /\ previous = last.current
    /\ current = Errored
           => /\ previous \in {PreDeploying, Deploying, PostDeploying}
              /\ StageRuns # <<>>
              /\ StageRuns[Len(StageRuns)].err # NilErr
              /\ previous = InProgress(StageRuns[Len(StageRuns)].who)

C33_Witness ==
    /\ last.op = "Step"
    /\ last.cmd = PreDeployCmd
    /\ last.err.kind = "command is not yet supported"
    /\ current = Errored
    /\ previous = PreDeploying
    /\ Len(ran) = 2

\* C34: over any sequence of Run, RunImage, Reset, stage-handler and hook
\* invocations on one RunContext that started empty, no step takes the context
\* from IsErrored() true to IsErrored() false, a successful run included
C34_IsErroredMonotonic ==
    [][RunContextIsErrored(ctx) => RunContextIsErrored(ctx')]_vars

C34_Witness ==
    /\ last.op = "Run"
    /\ last.out = "ok"
    /\ last.err = NilErr
    /\ RunContextIsErrored(last.ctx)
    /\ last.ctx.LastErrCode # 0
    /\ ctx.LastErrCode = 0
    /\ RunContextIsErrored(ctx)

\* C35: a RunContext that started empty and was changed only by Run, RunImage,
\* stage handlers, hooks and Reset has a non-zero exit code only if its error
\* list is non-empty, and then the list holds the exit error with that code
C35_CodeImpliesError ==
    ctx.LastErrCode # 0
        => /\ Len(ctx.Errors) > 0
           /\ \E i \in 1..Len(ctx.Errors) :
                  IsExitError(ctx.Errors[i]) /\ ctx.Errors[i].code = ctx.LastErrCode

C35_Witness ==
    /\ last.op = "Hook"
    /\ last.out = "exit"
    /\ last.ctx.LastErrCode = 1
    /\ ctx.LastErrCode = 2
    /\ Len(ctx.Errors) = 2
    /\ ctx.Errors[2].code = 2

\* C36: with one RunContext passed to every handler the iterator yields (and to
\* the hooks), whenever module.IsErrored() is true the context holds at least
\* one recorded error, the one the failed stage returned, and is errored itself
C36_ModuleErroredImpliesContext ==
    IsErrored(current)
        => /\ Len(ctx.Errors) >= 1
           /\ RunContextIsErrored(ctx)
           /\ \E i \in 1..Len(ctx.Errors) : ctx.Errors[i] = StageRuns[Len(StageRuns)].err

C36_Witness ==
    /\ IsErrored(current)
    /\ pc = "end"
    /\ Len(ctx.Errors) = 1
    /\ ctx.LastErrCode = 0
    /\ ctx.Errors[1].kind = "spawn"
    /\ StageRuns[Len(StageRuns)].who = "post_deploy"

\* C37: a BuildFrom call refused because its descriptor has a command leaves the
\* builder's parts, their image, variables and volume mappings included, as
\* they were before the call, so Build renders the same string as before it
C37_RefusedBuildFromKeepsBuilder ==
    (last.op = "BuildFrom" /\ last.err # NilErr)
        => /\ parts.Image = last.parts.Image
           /\ parts.Envvars = last.parts.Envvars
           /\ parts.VolumeMaps = last.parts.VolumeMaps
           /\ parts = last.parts
           /\ Build(parts) = Build(last.parts)

C37_Witness ==
    /\ last.op = "BuildFrom"
    /\ last.err # NilErr
    /\ last.info.Image = <<"c", "m", "d">>
    /\ last.info.EnvVars = <<EnvB>>
    /\ parts.Image = <<"e", "n", "v">>
    /\ parts.Envvars = <<EnvA>>
    /\ Len(parts.VolumeMaps) = 1

\* the host port of a 'host:container' value
HostOf(t) == SplitOn(t, ":")[1]

\* C38: the '-p' values Build renders are one 'host:container' for each mapping
\* the builder holds, in ascending order of the host-port string, in whatever
\* order the WithPort calls were made; the set of mappings alone determines them
C38_PortsRenderedSorted ==
    last.op \in {"WithPort", "Build"}
        => \E now \in {PortTokens(parts)} :
               /\ Len(now) = Cardinality(parts.Ports)
               /\ {now[i] : i \in 1..Len(now)}
                      = {pr[1] \o <<":">> \o pr[2] : pr \in parts.Ports}
               /\ \A i \in 1..(Len(now) - 1) : StrLess(HostOf(now[i]), HostOf(now[i + 1]))

C38_Witness ==
    /\ last.op = "WithPort"
    /\ last.args[1] = <<"4", "4", "3">>
    /\ last.parts.Ports = {<<<<"8", "0">>, <<"9", "0">>>>}
    /\ PortTokens(parts) = <<<<"4", "4", "3", ":", "8", "0", "8", "0">>,
                             <<"8", "0", ":", "9", "0">>>>

\* C39: after NotifyErr(state, err) previous is the old current state and
\* current is the given state; err is the newest entry of the module's own
\* copy of the Run Context, and the Run Context the caller supplied is as it
\* was: its error list keeps its length and never holds err
C39_NotifyErrRecordsInOwnCopy ==
    last.op = "NotifyErr"
        => /\ previous = last.current
           /\ current = last.arg
           /\ ctx = last.ctx
           /\ Len(ctx.Errors) = Len(last.ctx.Errors)
           /\ \A i \in 1..Len(ctx.Errors) : ctx.Errors[i] # CallerErr
           /\ Len(modCtx.Errors) >= 1
           /\ modCtx.Errors[Len(modCtx.Errors)] = CallerErr

C39_Witness ==
    /\ last.op = "NotifyErr"
    /\ last.current # last.arg
    /\ Len(ctx.Errors) >= 1
    /\ ctx.Errors[1] # CallerErr
    /\ modCtx.Errors = <<CallerErr>>
    /\ previous = last.current
    /\ current = last.arg

\* C40: the next-step function never reads past the end of the execution
\* order: whatever the current state is, and for every state there is, the
\* entry at idx+1 that it reads exists, so asking for a step does not panic;
\* done, the one state that sits at the last index, is answered before the
\* order is searched, and the step handed out at done is the done handler
C40_NextStaysInBounds ==
    /\ current \in States
    /\ ~NextFunc(current, cmds, DefaultOrder).panic
    /\ last.op = "Next"
           => /\ ~step.panic
              /\ \A s \in States : ~NextFunc(s, cmds, DefaultOrder).panic
    /\ last.op = "Next" /\ current = Done => step.cmd = DoneHandler /\ ~step.more

C40_Witness ==
    /\ last.op = "Next"
    /\ current = Done
    /\ DefaultOrder[Len(DefaultOrder)] = current
    /\ step = [cmd |-> DoneHandler, more |-> FALSE, panic |-> FALSE]

====
